---- MODULE Spec2Model ----
(***************************************************************************)
(* A model of calcify's output containers: the record codecs (text and     *)
(* MessagePack), Collection, Branch, Tree and FeedTree.                    *)
(*                                                                         *)
(* Representation.                                                         *)
(*   text    a TLA+ string; the std::str operations the code uses (split,  *)
(*           replace, trim_matches, ...) are operators on strings.         *)
(*   bytes   a sequence of numbers 0..255.                                 *)
(*   u64     its base-65536 digits, most significant first, no leading     *)
(*           zero (the empty sequence is 0), so that all 64 bits are kept. *)
(*   f64     the 8 bytes of its IEEE 754 bit pattern, big-endian.  The     *)
(*           decimal formatter and parser are modelled on the values that  *)
(*           are whole numbers (every value the inputs draw from).         *)
(*   HashMap a function from the set of its keys; an encoder walks it in   *)
(*           an order the caller of the operator chooses.                  *)
(***************************************************************************)
EXTENDS Integers, Sequences, FiniteSets, TLC

VARIABLES
    ftree,      \* the FeedTree<f64> under construction: [metadata, datafeeds]
    fres,       \* what the last FeedTree call returned, with its arguments
    fprev,      \* the FeedTree before the last call
    fhist,      \* per feed name: seed collection and successful writes so far
    tree,       \* the Tree under construction: [metadata, branches]
    tres,       \* what the last Tree call returned, with its arguments
    tprev,      \* the Tree before the last call
    col,        \* codec bench: the collection in hand, [T, vec]
    cres,       \* codec bench: what the last encode/decode call produced
    uni         \* Universe::run: the main thread, the pool and what they share

vars == <<ftree, fres, fprev, fhist, tree, tres, tprev, col, cres, uni>>

-----------------------------------------------------------------------------
(* std::str *)

\* s.starts_with(p)
StartsWith(s, p) == Len(s) >= Len(p) /\ SubSeq(s, 1, Len(p)) = p

\* `let v = ...;` : v is worked out once and named in Body
Let(v, Body(_)) == Body(v)

\* The least index >= i at which p occurs in s, or 0.
FindFrom(s, p, i) ==
    Let({j \in i..(Len(s) - Len(p) + 1) : SubSeq(s, j, j + Len(p) - 1) = p}, LAMBDA at :
        IF at = {} THEN 0 ELSE CHOOSE j \in at : \A k \in at : j <= k)

\* s.split(p): the pieces between the non-overlapping occurrences of p, from
\* the left, empty pieces included.
RECURSIVE Split(_, _)
Split(s, p) ==
    Let(FindFrom(s, p, 1), LAMBDA j :
        IF j = 0 THEN <<s>>
        ELSE <<SubSeq(s, 1, j - 1)>> \o Split(SubSeq(s, j + Len(p), Len(s)), p))

\* s.split_terminator(p): as split, without the last piece when it is empty.
SplitTerminator(s, p) ==
    Let(Split(s, p), LAMBDA ps :
        IF ps[Len(ps)] = "" THEN SubSeq(ps, 1, Len(ps) - 1) ELSE ps)

\* pieces.join(sep)
RECURSIVE Join(_, _)
Join(ps, sep) ==
    IF Len(ps) = 0 THEN ""
    ELSE IF Len(ps) = 1 THEN ps[1]
    ELSE ps[1] \o sep \o Join(Tail(ps), sep)

\* s.replace(from, to)
Replace(s, from, to) == Join(Split(s, from), to)

\* s.trim_start_matches / trim_end_matches on a set of characters
RECURSIVE TrimStart(_, _)
TrimStart(s, cs) ==
    IF Len(s) > 0 /\ SubSeq(s, 1, 1) \in cs
    THEN TrimStart(SubSeq(s, 2, Len(s)), cs) ELSE s

RECURSIVE TrimEnd(_, _)
TrimEnd(s, cs) ==
    IF Len(s) > 0 /\ SubSeq(s, Len(s), Len(s)) \in cs
    THEN TrimEnd(SubSeq(s, 1, Len(s) - 1), cs) ELSE s

\* s.trim_matches(|p| p in cs)
TrimMatches(s, cs) == TrimEnd(TrimStart(s, cs), cs)

-----------------------------------------------------------------------------
(* Naturals of any width.  A u64 is the sequence of its base-65536 digits   *)
(* ("limbs"), most significant first, without leading zero; the f64          *)
(* operators work on binary digits, most significant first.                 *)

Zeros(n) == [i \in 1..n |-> 0]

\* b with zeros in front, w digits wide (b itself when it is wider)
Pad(b, w) == Zeros(w - Len(b)) \o b

\* b without its leading zeros
Norm(b) ==
    IF \A i \in 1..Len(b) : b[i] = 0 THEN <<>>
    ELSE LET k == CHOOSE i \in 1..Len(b) :
                      b[i] # 0 /\ \A j \in 1..(i - 1) : b[j] = 0
         IN  SubSeq(b, k, Len(b))

\* the binary digits of a number small enough to be a TLA+ integer, and back
RECURSIVE BitsOf(_)
BitsOf(n) == IF n = 0 THEN <<>> ELSE Append(BitsOf(n \div 2), n % 2)

RECURSIVE NatOf(_)
NatOf(b) ==
    IF Len(b) = 0 THEN 0
    ELSE 2 * NatOf(SubSeq(b, 1, Len(b) - 1)) + b[Len(b)]

\* the binary digits of a sequence of w-bit digits
BitsOfDigits(ds, w) ==
    [i \in 1..(w * Len(ds)) |-> (ds[((i - 1) \div w) + 1] \div (2 ^ (w - 1 - ((i - 1) % w)))) % 2]

\* the w-bit digits of a sequence of binary digits (a multiple of w long)
DigitsOfBits(b, w) ==
    [i \in 1..(Len(b) \div w) |-> NatOf(SubSeq(b, w * (i - 1) + 1, w * i))]

\* a u64's binary digits, and the u64 of binary digits
BitsOfLimbs(l) == Norm(BitsOfDigits(l, 16))

LimbsOfBits(b) ==
    Let(Norm(b), LAMBDA n : DigitsOfBits(Pad(n, 16 * ((Len(n) + 15) \div 16)), 16))

\* the u64 of a small number, for writing the inputs down
U(n) == LimbsOfBits(BitsOf(n))

\* 10000 * l + d on limbs: <<limbs, carry out>>
RECURSIVE MulStep(_, _)
MulStep(l, d) ==
    IF Len(l) = 0 THEN <<<<>>, d>>
    ELSE Let(MulStep(Tail(l), d), LAMBDA lo :
         Let(10000 * l[1] + lo[2], LAMBDA v :
             <<<<v % 65536>> \o lo[1], v \div 65536>>))

MulAdd(l, d) ==
    Let(MulStep(l, d), LAMBDA r : Norm(<<r[2]>> \o r[1]))

\* long division by 10000: <<quotient, remainder>>
RECURSIVE DivStep(_, _)
DivStep(l, r) ==
    IF Len(l) = 0 THEN <<<<>>, r>>
    ELSE Let(65536 * r + l[1], LAMBDA v :
         Let(DivStep(Tail(l), v % 10000), LAMBDA lo :
             <<<<v \div 10000>> \o lo[1], lo[2]>>))

DivMod(l) == Let(DivStep(l, 0), LAMBDA qr : <<Norm(qr[1]), qr[2]>>)

\* b + 1 on binary digits of a fixed width (one digit wider on overflow)
Increment(b) ==
    IF \A i \in 1..Len(b) : b[i] = 1 THEN <<1>> \o Zeros(Len(b))
    ELSE LET k == CHOOSE i \in 1..Len(b) :
                      b[i] = 0 /\ \A j \in (i + 1)..Len(b) : b[j] = 1
         IN  [i \in 1..Len(b) |-> IF i < k THEN b[i] ELSE IF i = k THEN 1 ELSE 0]

-----------------------------------------------------------------------------
(* Decimal text of the numbers: format!("{}", x) and str::parse. *)

DigitChar(d) == SubSeq("0123456789", d + 1, d + 1)

IsDigit(c) == \E d \in 0..9 : DigitChar(d) = c

DigitVal(c) == CHOOSE d \in 0..9 : DigitChar(d) = c

IsDigits(s) == Len(s) > 0 /\ \A i \in 1..Len(s) : IsDigit(SubSeq(s, i, i))

\* the decimal digits of n < 10000: all four, or without leading zeros
Digits4(n) ==
    DigitChar(n \div 1000) \o DigitChar((n \div 100) % 10)
        \o DigitChar((n \div 10) % 10) \o DigitChar(n % 10)

DigitsOfSmall(n) ==
    IF n >= 1000 THEN Digits4(n)
    ELSE IF n >= 100 THEN SubSeq(Digits4(n), 2, 4)
    ELSE IF n >= 10 THEN SubSeq(Digits4(n), 3, 4)
    ELSE DigitChar(n)

\* the number that at most four decimal digits denote
RECURSIVE SmallOfDigits(_)
SmallOfDigits(s) ==
    IF Len(s) = 0 THEN 0
    ELSE 10 * SmallOfDigits(SubSeq(s, 1, Len(s) - 1))
             + DigitVal(SubSeq(s, Len(s), Len(s)))

\* <u64 as Display>::fmt
RECURSIVE FmtU64(_)
FmtU64(l) ==
    IF Len(l) = 0 THEN "0"
    ELSE Let(DivMod(l), LAMBDA qr :
             IF Len(qr[1]) = 0 THEN DigitsOfSmall(qr[2])
             ELSE FmtU64(qr[1]) \o Digits4(qr[2]))

\* the number a string of decimal digits denotes, exactly
RECURSIVE ParseDec(_)
ParseDec(s) ==
    IF Len(s) <= 4 THEN U(SmallOfDigits(s))
    ELSE Let(ParseDec(SubSeq(s, 1, Len(s) - 4)), LAMBDA hi :
             IF Len(hi) >= 0
             THEN MulAdd(hi, SmallOfDigits(SubSeq(s, Len(s) - 3, Len(s))))
             ELSE <<>>)

\* Results.  A binary decode gives Ok(val, bytes not consumed), a text decode
\* OkT(val); Err(err) is the error returned, Panic an abort of the call.
Ok(v, r) == [ok |-> TRUE, val |-> v, rest |-> r]
OkT(v) == [ok |-> TRUE, val |-> v]
Err(e) == [ok |-> FALSE, err |-> e]
Panic == [ok |-> FALSE, err |-> "panic"]

-----------------------------------------------------------------------------
(* f64: the IEEE 754 binary64 bit pattern, as 8 bytes. *)

\* the nearest 53-digit mantissa of a wider number (ties to even) and the
\* exponent of its leading digit
RoundTo53(b) ==
    Let(SubSeq(b, 1, 53), LAMBDA top :
    Let(SubSeq(b, 54, Len(b)), LAMBDA rest :
    Let(IF rest[1] = 1 /\ ((\E i \in 2..Len(rest) : rest[i] = 1) \/ top[53] = 1)
        THEN Increment(top) ELSE top, LAMBDA inc :
        IF Len(inc) > 53 THEN <<SubSeq(inc, 1, 53), Len(b)>>
        ELSE <<inc, Len(b) - 1>>)))

\* the f64 nearest to the whole number (-1)^neg * l
F64OfInt(neg, l) ==
    Let(IF neg THEN 1 ELSE 0, LAMBDA sign :
    Let(BitsOfLimbs(l), LAMBDA mag :
        IF Len(mag) = 0 THEN DigitsOfBits(<<sign>> \o Zeros(63), 8)
        ELSE Let(IF Len(mag) > 53 THEN RoundTo53(mag)
                 ELSE <<mag \o Zeros(53 - Len(mag)), Len(mag) - 1>>, LAMBDA me :
                 DigitsOfBits(<<sign>> \o Pad(BitsOf(me[2] + 1023), 11)
                                 \o SubSeq(me[1], 2, 53), 8))))

\* sign, biased exponent and fraction digits of an f64
F64Parts(x) ==
    Let(BitsOfDigits(x, 8), LAMBDA b :
        [neg |-> b[1] = 1, E |-> NatOf(SubSeq(b, 2, 12)), frac |-> SubSeq(b, 13, 64)])

F64IsNaN(x) ==
    Let(F64Parts(x), LAMBDA p : p.E = 2047 /\ \E i \in 1..52 : p.frac[i] = 1)

F64IsInf(x) ==
    Let(F64Parts(x), LAMBDA p : p.E = 2047 /\ \A i \in 1..52 : p.frac[i] = 0)

F64IsZero(x) ==
    Let(F64Parts(x), LAMBDA p : p.E = 0 /\ \A i \in 1..52 : p.frac[i] = 0)

\* x is finite and has no fractional part
F64IsWhole(x) ==
    Let(F64Parts(x), LAMBDA p :
        \/ p.E = 0 /\ \A i \in 1..52 : p.frac[i] = 0
        \/ /\ p.E < 2047 /\ p.E >= 1023
           /\ \A i \in 1..52 : i > p.E - 1023 => p.frac[i] = 0)

\* |x| without its fractional part (x finite)
F64Trunc(x) ==
    Let(F64Parts(x), LAMBDA p :
    Let(p.E - 1023, LAMBDA e :
        IF e < 0 THEN <<>>
        ELSE IF e <= 52 THEN LimbsOfBits(<<1>> \o SubSeq(p.frac, 1, e))
        ELSE LimbsOfBits(<<1>> \o p.frac \o Zeros(e - 52))))

\* f64 == f64: bit patterns, except that NaN equals nothing and -0 equals 0
F64Eq(x, y) ==
    /\ ~F64IsNaN(x) /\ ~F64IsNaN(y)
    /\ \/ x = y
       \/ F64IsZero(x) /\ F64IsZero(y)

\* <f64 as Display>::fmt.  Whole numbers print as their digits ("-0" for
\* -0.0); a value with a fractional part is outside the modelled inputs and
\* prints as a text no parser accepts.
FmtF64(x) ==
    Let(IF F64Parts(x).neg THEN "-" ELSE "", LAMBDA sign :
        IF F64IsNaN(x) THEN "NaN"
        ELSE IF F64IsInf(x) THEN sign \o "inf"
        ELSE IF F64IsWhole(x) THEN sign \o FmtU64(F64Trunc(x))
        ELSE "<fraction>")

\* str::parse::<f64> on the texts FmtF64 writes: an optional sign and decimal
\* digits (correctly rounded), "inf" and "NaN"; anything else is an error.
ParseF64(s) ==
    Let(StartsWith(s, "-"), LAMBDA neg :
    Let(IF neg \/ StartsWith(s, "+") THEN SubSeq(s, 2, Len(s)) ELSE s, LAMBDA t :
        IF t = "inf" THEN OkT(DigitsOfBits(<<IF neg THEN 1 ELSE 0>> \o Pad(BitsOf(2047), 11) \o Zeros(52), 8))
        ELSE IF t = "NaN" THEN OkT(DigitsOfBits(<<0>> \o Pad(BitsOf(2047), 11) \o <<1>> \o Zeros(51), 8))
        ELSE IF ~IsDigits(t) THEN Err("ParseFloatError")
        ELSE OkT(F64OfInt(neg, ParseDec(t)))))

\* `x as u64`: NaN and negatives give 0, too large saturates, else truncates
F64AsU64(x) ==
    Let(F64Parts(x), LAMBDA p :
        IF F64IsNaN(x) \/ p.neg THEN <<>>
        ELSE IF p.E - 1023 >= 64 THEN <<65535, 65535, 65535, 65535>>
        ELSE F64Trunc(x))

\* the f64 of a small whole number, for writing the inputs down
F(n) == F64OfInt(n < 0, U(IF n < 0 THEN -n ELSE n))

-----------------------------------------------------------------------------
(* MessagePack, as the rmp crate writes and reads it.  A read takes the     *)
(* bytes at the cursor and gives Ok(value, bytes left) or an error; an      *)
(* error of a read through a cursor also says where the cursor is left.     *)

ErrAt(e, r) == [ok |-> FALSE, err |-> e, rest |-> r]

\* the characters of code 32..95 and 97..126, in order (a TLA+ string cannot
\* hold the character of code 96, which no modelled text contains)
PrintLo == " !\"#$%&'()*+,-./0123456789:;<=>?@ABCDEFGHIJKLMNOPQRSTUVWXYZ[\\]^_"
PrintHi == "abcdefghijklmnopqrstuvwxyz{|}~"

Ord(c) ==
    IF \E i \in 1..Len(PrintLo) : SubSeq(PrintLo, i, i) = c
    THEN 31 + (CHOOSE i \in 1..Len(PrintLo) : SubSeq(PrintLo, i, i) = c)
    ELSE 96 + (CHOOSE i \in 1..Len(PrintHi) : SubSeq(PrintHi, i, i) = c)

Chr(b) == IF b < 96 THEN SubSeq(PrintLo, b - 31, b - 31) ELSE SubSeq(PrintHi, b - 96, b - 96)

\* str::as_bytes and str::from_utf8 (the model's strings are printable ASCII)
Utf8(s) == [i \in 1..Len(s) |-> Ord(SubSeq(s, i, i))]

RECURSIVE FromUtf8(_)
FromUtf8(bs) ==
    IF Len(bs) = 0 THEN ""
    ELSE FromUtf8(SubSeq(bs, 1, Len(bs) - 1)) \o Chr(bs[Len(bs)])

\* the big-endian bytes of n, w bytes wide
BeBytes(n, w) == [i \in 1..w |-> (n \div (256 ^ (w - i))) % 256]

\* the number of at most three big-endian bytes; of four, capped at 2^31 - 1
BeNat(bs) ==
    IF Len(bs) = 4 /\ bs[1] >= 128 THEN 2147483647
    ELSE IF Len(bs) = 0 THEN 0
    ELSE IF Len(bs) = 1 THEN bs[1]
    ELSE IF Len(bs) = 2 THEN 256 * bs[1] + bs[2]
    ELSE IF Len(bs) = 3 THEN 65536 * bs[1] + 256 * bs[2] + bs[3]
    ELSE 16777216 * bs[1] + 65536 * bs[2] + 256 * bs[3] + bs[4]

\* a length header: the fix marker, or the 16 or 32 bit marker and the length
WriteLen(len, fix, fixlen, m16, m32) ==
    IF len < fixlen THEN <<fix + len>>
    ELSE IF len < 65536 THEN <<m16>> \o BeBytes(len, 2)
    ELSE <<m32>> \o BeBytes(len, 4)

ReadLen(bytes, fix, fixlen, m16, m32) ==
    IF Len(bytes) = 0 THEN ErrAt("ValueReadError", bytes)
    ELSE Let(bytes[1], LAMBDA m :
         Let(Tail(bytes), LAMBDA r :
             IF m >= fix /\ m < fix + fixlen THEN Ok(m - fix, r)
             ELSE IF m = m16 /\ Len(r) >= 2
                  THEN Ok(BeNat(SubSeq(r, 1, 2)), SubSeq(r, 3, Len(r)))
             ELSE IF m = m32 /\ Len(r) >= 4
                  THEN Ok(BeNat(SubSeq(r, 1, 4)), SubSeq(r, 5, Len(r)))
             ELSE ErrAt("ValueReadError", r)))

write_map_len(len) == WriteLen(len, 128, 16, 222, 223)
read_map_len(bytes) == ReadLen(bytes, 128, 16, 222, 223)

write_array_len(len) == WriteLen(len, 144, 16, 220, 221)
read_array_len(bytes) == ReadLen(bytes, 144, 16, 220, 221)

write_str(s) ==
    (IF Len(s) < 32 THEN <<160 + Len(s)>>
     ELSE IF Len(s) < 256 THEN <<217, Len(s)>>
     ELSE IF Len(s) < 65536 THEN <<218>> \o BeBytes(Len(s), 2)
     ELSE <<219>> \o BeBytes(Len(s), 4)) \o Utf8(s)

\* read_str_from_slice: the string and the bytes after it
read_str_from_slice(bytes) ==
    IF Len(bytes) = 0 THEN Err("DecodeStringError")
    ELSE Let(bytes[1], LAMBDA m :
         Let(Tail(bytes), LAMBDA r :
         Let(IF m >= 160 /\ m < 192 THEN 0
             ELSE IF m = 217 THEN 1
             ELSE IF m = 218 THEN 2
             ELSE IF m = 219 THEN 4
             ELSE -1, LAMBDA hdr :
             IF hdr < 0 \/ Len(r) < hdr THEN Err("DecodeStringError")
             ELSE Let(IF hdr = 0 THEN m - 160 ELSE BeNat(SubSeq(r, 1, hdr)), LAMBDA len :
                  Let(SubSeq(r, hdr + 1, hdr + len), LAMBDA body :
                      IF Len(r) < hdr + len THEN Err("DecodeStringError")
                      ELSE IF \E i \in 1..len : body[i] < 32 \/ body[i] > 126 \/ body[i] = 96
                           THEN Err("DecodeStringError")
                      ELSE Ok(FromUtf8(body), SubSeq(r, hdr + len + 1, Len(r))))))))

write_f64(x) == <<203>> \o x

read_f64(bytes) ==
    IF Len(bytes) = 0 THEN ErrAt("ValueReadError", bytes)
    ELSE IF bytes[1] = 203 /\ Len(bytes) >= 9
         THEN Ok(SubSeq(bytes, 2, 9), SubSeq(bytes, 10, Len(bytes)))
    ELSE ErrAt("ValueReadError", Tail(bytes))

\* write_uint: the shortest of fixint, u8, u16, u32, u64
write_uint(l) ==
    IF Len(l) = 0 THEN <<0>>
    ELSE IF Len(l) = 1 /\ l[1] < 128 THEN <<l[1]>>
    ELSE IF Len(l) = 1 /\ l[1] < 256 THEN <<204, l[1]>>
    ELSE IF Len(l) = 1 THEN <<205>> \o BeBytes(l[1], 2)
    ELSE IF Len(l) = 2 THEN <<206>> \o BeBytes(l[1], 2) \o BeBytes(l[2], 2)
    ELSE <<207>> \o DigitsOfBits(Pad(BitsOfDigits(l, 16), 64), 8)

\* read_int::<u64>: any integer marker whose value is a u64
read_int(bytes) ==
    IF Len(bytes) = 0 THEN ErrAt("NumValueReadError", bytes)
    ELSE Let(bytes[1], LAMBDA m :
         Let(Tail(bytes), LAMBDA r :
         Let(IF m = 204 \/ m = 208 THEN 1
             ELSE IF m = 205 \/ m = 209 THEN 2
             ELSE IF m = 206 \/ m = 210 THEN 4
             ELSE IF m = 207 \/ m = 211 THEN 8
             ELSE 0, LAMBDA w :
             IF m < 128 THEN Ok(U(m), r)
             ELSE IF w = 0 \/ Len(r) < w THEN ErrAt("NumValueReadError", r)
             ELSE IF m >= 208 /\ m <= 211 /\ r[1] >= 128
                  THEN ErrAt("NumValueReadError", SubSeq(r, w + 1, Len(r)))
             ELSE Ok(LimbsOfBits(BitsOfDigits(SubSeq(r, 1, w), 8)), SubSeq(r, w + 1, Len(r))))))

-----------------------------------------------------------------------------
(* The records.  f64 is its 8 bytes; the others are records of their       *)
(* fields.                                                                 *)

\* std::f64::NAN
NAN == <<127, 248, 0, 0, 0, 0, 0, 0>>

f64_to_json(x) == FmtF64(x)
f64_to_msg(x) == write_f64(x)
f64_from_json(s) == ParseF64(s)
f64_from_msg(bytes) ==
    Let(read_f64(bytes), LAMBDA r : IF r.ok THEN r ELSE Err(r.err))

\* The loop of Point::from_json and FourVec::from_json over the pieces
\* "name":value : the fields named keys[1..], starting from acc.
RECURSIVE KeyedFloats(_, _, _)
KeyedFloats(dims, keys, acc) ==
    IF Len(dims) = 0 THEN OkT(acc)
    ELSE Let(Split(dims[1], ":"), LAMBDA n_v :
             IF ~\E k \in 1..Len(keys) : keys[k] = n_v[1] THEN Err("ParseError")
             ELSE IF Len(n_v) < 2 THEN Panic
             ELSE Let(CHOOSE k \in 1..Len(keys) : keys[k] = n_v[1], LAMBDA k :
                  Let(ParseF64(n_v[2]), LAMBDA v :
                      IF ~v.ok THEN v
                      ELSE KeyedFloats(Tail(dims), keys, [acc EXCEPT ![k] = v.val]))))

\* The loop `for i in 0..n { x[i] = read_f64(&mut bytes)? }`
RECURSIVE ReadFloats(_, _, _)
ReadFloats(bytes, n, acc) ==
    IF n = 0 THEN Ok(acc, bytes)
    ELSE Let(read_f64(bytes), LAMBDA r :
             IF ~r.ok THEN Err(r.err)
             ELSE ReadFloats(r.rest, n - 1, Append(acc, r.val)))

Point_to_json(p) ==
    "{\"x\":" \o FmtF64(p.x) \o ",\"y\":" \o FmtF64(p.y) \o "}"

Point_to_msg(p) == write_array_len(2) \o write_f64(p.x) \o write_f64(p.y)

Point_from_json(s) ==
    Let(KeyedFloats(Split(TrimMatches(s, {"{", "}"}), ","),
                    <<"\"x\"", "\"y\"">>, <<NAN, NAN>>), LAMBDA r :
        IF r.ok THEN OkT([x |-> r.val[1], y |-> r.val[2]]) ELSE r)

Point_from_msg(bytes) ==
    Let(read_array_len(bytes), LAMBDA h :
        IF h.ok /\ h.val = 2
        THEN Let(ReadFloats(h.rest, 2, <<>>), LAMBDA r :
                 IF r.ok THEN Ok([x |-> r.val[1], y |-> r.val[2]], r.rest) ELSE r)
        ELSE Err("ParseError"))

FourVec_to_json(v) ==
    "{\"m0\":" \o FmtF64(v.m0) \o ",\"m1\":" \o FmtF64(v.m1)
        \o ",\"m2\":" \o FmtF64(v.m2) \o ",\"m3\":" \o FmtF64(v.m3) \o "}"

FourVec_to_msg(v) ==
    write_array_len(4) \o write_f64(v.m0) \o write_f64(v.m1)
        \o write_f64(v.m2) \o write_f64(v.m3)

FourVec_from_json(s) ==
    Let(KeyedFloats(Split(TrimMatches(s, {"{", "}"}), ","),
                    <<"\"m0\"", "\"m1\"", "\"m2\"", "\"m3\"">>,
                    <<NAN, NAN, NAN, NAN>>), LAMBDA r :
        IF r.ok
        THEN OkT([m0 |-> r.val[1], m1 |-> r.val[2], m2 |-> r.val[3], m3 |-> r.val[4]])
        ELSE r)

FourVec_from_msg(bytes) ==
    Let(read_array_len(bytes), LAMBDA h :
        IF h.ok /\ h.val = 4
        THEN Let(ReadFloats(h.rest, 4, <<>>), LAMBDA r :
                 IF r.ok
                 THEN Ok([m0 |-> r.val[1], m1 |-> r.val[2], m2 |-> r.val[3],
                          m3 |-> r.val[4]], r.rest)
                 ELSE r)
        ELSE Err("ParseError"))

FourMat_to_json(m) ==
    "{\"n0\":" \o FourVec_to_json(m.n0) \o ",\"n1\":" \o FourVec_to_json(m.n1)
        \o ",\"n2\":" \o FourVec_to_json(m.n2) \o ",\"n3\":" \o FourVec_to_json(m.n3)
        \o "}"

FourMat_to_msg(m) ==
    write_array_len(4) \o FourVec_to_msg(m.n0) \o FourVec_to_msg(m.n1)
        \o FourVec_to_msg(m.n2) \o FourVec_to_msg(m.n3)

NanVec == [m0 |-> NAN, m1 |-> NAN, m2 |-> NAN, m3 |-> NAN]

\* The loop of FourMat::from_json over the pieces "name":!{...}
RECURSIVE KeyedVecs(_, _, _)
KeyedVecs(dims, keys, acc) ==
    IF Len(dims) = 0 THEN OkT(acc)
    ELSE Let(Split(dims[1], ":!"), LAMBDA n_v :
             IF ~\E k \in 1..Len(keys) : keys[k] = n_v[1] THEN Err("ParseError")
             ELSE IF Len(n_v) < 2 THEN Panic
             ELSE Let(CHOOSE k \in 1..Len(keys) : keys[k] = n_v[1], LAMBDA k :
                  Let(FourVec_from_json(n_v[2]), LAMBDA v :
                      IF ~v.ok THEN v
                      ELSE KeyedVecs(Tail(dims), keys, [acc EXCEPT ![k] = v.val]))))

FourMat_from_json(s) ==
    Let(Replace(Replace(Replace(s, "}}", "|}"), "},", "}|"), ":{", ":!{"), LAMBDA t :
    Let(KeyedVecs(SplitTerminator(TrimMatches(t, {"{", "}"}), "|"),
                  <<"\"n0\"", "\"n1\"", "\"n2\"", "\"n3\"">>,
                  <<NanVec, NanVec, NanVec, NanVec>>), LAMBDA r :
        IF r.ok
        THEN OkT([n0 |-> r.val[1], n1 |-> r.val[2], n2 |-> r.val[3], n3 |-> r.val[4]])
        ELSE r))

\* The loop `for i in 0..4 { let (vec,rest) = FourVec::from_msg(bytes)?; .. }`
RECURSIVE ReadVecs(_, _, _)
ReadVecs(bytes, n, acc) ==
    IF n = 0 THEN Ok(acc, bytes)
    ELSE Let(FourVec_from_msg(bytes), LAMBDA r :
             IF ~r.ok THEN r
             ELSE ReadVecs(r.rest, n - 1, Append(acc, r.val)))

FourMat_from_msg(bytes) ==
    Let(read_array_len(bytes), LAMBDA h :
        IF h.ok /\ h.val = 4
        THEN Let(ReadVecs(h.rest, 4, <<>>), LAMBDA r :
                 IF r.ok
                 THEN Ok([n0 |-> r.val[1], n1 |-> r.val[2], n2 |-> r.val[3],
                          n3 |-> r.val[4]], r.rest)
                 ELSE r)
        ELSE Err("ParseError"))

\* The loop of Bin::from_json and PointBin::from_json over the numbered
\* pieces: piece 1 is the count (parsed as f64, cast to u64), pieces 4.. are
\* the n edges, pieces 0, 2, 3 are skipped, any further piece is an error.
\* acc is <<count, edges>>.
RECURSIVE NumberedFields(_, _, _, _)
NumberedFields(dims, i, n, acc) ==
    IF Len(dims) = 0 THEN OkT(acc)
    ELSE IF i = 0 \/ i = 2 \/ i = 3
         THEN NumberedFields(Tail(dims), i + 1, n, acc)
    ELSE IF i >= 4 + n THEN Err("ParseError")
    ELSE Let(ParseF64(dims[1]), LAMBDA v :
             IF ~v.ok THEN v
             ELSE IF i = 1
                  THEN NumberedFields(Tail(dims), i + 1, n, <<F64AsU64(v.val), acc[2]>>)
             ELSE NumberedFields(Tail(dims), i + 1, n,
                                 <<acc[1], [acc[2] EXCEPT ![i - 3] = v.val]>>))

\* s.replace(":",",").replace("[",",").replace("]",",")
\*   .trim_matches('{' | '}').split_terminator(",")
BinPieces(s) ==
    SplitTerminator(
        TrimMatches(Replace(Replace(Replace(s, ":", ","), "[", ","), "]", ","),
                    {"{", "}"}), ",")

Bin_to_json(b) ==
    "{\"count\":" \o FmtU64(b.count) \o ",\"range\":[" \o FmtF64(b.in_edge)
        \o "," \o FmtF64(b.ex_edge) \o "]}"

Bin_to_msg(b) ==
    write_array_len(2) \o write_uint(b.count) \o write_array_len(2)
        \o write_f64(b.in_edge) \o write_f64(b.ex_edge)

Bin_from_json(s) ==
    Let(NumberedFields(BinPieces(s), 0, 2, <<U(0), <<NAN, NAN>>>>), LAMBDA r :
        IF r.ok
        THEN OkT([count |-> r.val[1], in_edge |-> r.val[2][1], ex_edge |-> r.val[2][2]])
        ELSE r)

Bin_from_msg(bytes) ==
    Let(read_array_len(bytes), LAMBDA h :
        IF h.ok /\ h.val = 2
        THEN Let(read_int(h.rest), LAMBDA c :
                 IF ~c.ok THEN Err(c.err)
                 ELSE Let(read_array_len(c.rest), LAMBDA g :
                          IF g.ok /\ g.val = 2
                          THEN Let(ReadFloats(g.rest, 2, <<>>), LAMBDA r :
                                   IF r.ok
                                   THEN Ok([count |-> c.val, in_edge |-> r.val[1],
                                            ex_edge |-> r.val[2]], r.rest)
                                   ELSE r)
                          ELSE Err("ParseError")))
        ELSE Err("ParseError"))

PointBin_to_json(b) ==
    "{\"count\":" \o FmtU64(b.count) \o ",\"range\":[" \o FmtF64(b.in_edge_x)
        \o "," \o FmtF64(b.ex_edge_x) \o "," \o FmtF64(b.in_edge_y)
        \o "," \o FmtF64(b.ex_edge_y) \o "]}"

PointBin_to_msg(b) ==
    write_array_len(2) \o write_uint(b.count) \o write_array_len(4)
        \o write_f64(b.in_edge_x) \o write_f64(b.ex_edge_x)
        \o write_f64(b.in_edge_y) \o write_f64(b.ex_edge_y)

PointBin_from_json(s) ==
    Let(NumberedFields(BinPieces(s), 0, 4, <<U(0), <<NAN, NAN, NAN, NAN>>>>), LAMBDA r :
        IF r.ok
        THEN OkT([count |-> r.val[1], in_edge_x |-> r.val[2][1],
                  ex_edge_x |-> r.val[2][2], in_edge_y |-> r.val[2][3],
                  ex_edge_y |-> r.val[2][4]])
        ELSE r)

PointBin_from_msg(bytes) ==
    Let(read_array_len(bytes), LAMBDA h :
        IF h.ok /\ h.val = 2
        THEN Let(read_int(h.rest), LAMBDA c :
                 IF ~c.ok THEN Err(c.err)
                 ELSE Let(read_array_len(c.rest), LAMBDA g :
                          IF g.ok /\ g.val = 4
                          THEN Let(ReadFloats(g.rest, 4, <<>>), LAMBDA r :
                                   IF r.ok
                                   THEN Ok([count |-> c.val, in_edge_x |-> r.val[1],
                                            ex_edge_x |-> r.val[2],
                                            in_edge_y |-> r.val[3],
                                            ex_edge_y |-> r.val[4]], r.rest)
                                   ELSE r)
                          ELSE Err("ParseError")))
        ELSE Err("ParseError"))

\* The element types a Collection is decoded as, by name, and the dispatch
\* the compiler does on T.
Decodable == {"f64", "FourVec", "FourMat", "Bin", "Point", "PointBin"}

T_to_json(T, x) ==
    CASE T = "f64" -> f64_to_json(x)
      [] T = "FourVec" -> FourVec_to_json(x)
      [] T = "FourMat" -> FourMat_to_json(x)
      [] T = "Bin" -> Bin_to_json(x)
      [] T = "Point" -> Point_to_json(x)
      [] T = "PointBin" -> PointBin_to_json(x)

T_to_msg(T, x) ==
    CASE T = "f64" -> f64_to_msg(x)
      [] T = "FourVec" -> FourVec_to_msg(x)
      [] T = "FourMat" -> FourMat_to_msg(x)
      [] T = "Bin" -> Bin_to_msg(x)
      [] T = "Point" -> Point_to_msg(x)
      [] T = "PointBin" -> PointBin_to_msg(x)

T_from_json(T, s) ==
    CASE T = "f64" -> f64_from_json(s)
      [] T = "FourVec" -> FourVec_from_json(s)
      [] T = "FourMat" -> FourMat_from_json(s)
      [] T = "Bin" -> Bin_from_json(s)
      [] T = "Point" -> Point_from_json(s)
      [] T = "PointBin" -> PointBin_from_json(s)

T_from_msg(T, bytes) ==
    CASE T = "f64" -> f64_from_msg(bytes)
      [] T = "FourVec" -> FourVec_from_msg(bytes)
      [] T = "FourMat" -> FourMat_from_msg(bytes)
      [] T = "Bin" -> Bin_from_msg(bytes)
      [] T = "Point" -> Point_from_msg(bytes)
      [] T = "PointBin" -> PointBin_from_msg(bytes)

\* #[derive(PartialEq)]: field by field, floats by f64's ==
FourVec_eq(a, b) ==
    F64Eq(a.m0, b.m0) /\ F64Eq(a.m1, b.m1) /\ F64Eq(a.m2, b.m2) /\ F64Eq(a.m3, b.m3)

T_eq(T, a, b) ==
    CASE T = "f64" -> F64Eq(a, b)
      [] T = "FourVec" -> FourVec_eq(a, b)
      [] T = "FourMat" ->
            FourVec_eq(a.n0, b.n0) /\ FourVec_eq(a.n1, b.n1)
                /\ FourVec_eq(a.n2, b.n2) /\ FourVec_eq(a.n3, b.n3)
      [] T = "Bin" ->
            F64Eq(a.in_edge, b.in_edge) /\ F64Eq(a.ex_edge, b.ex_edge)
                /\ a.count = b.count
      [] T = "Point" -> F64Eq(a.x, b.x) /\ F64Eq(a.y, b.y)
      [] T = "PointBin" ->
            F64Eq(a.in_edge_x, b.in_edge_x) /\ F64Eq(a.ex_edge_x, b.ex_edge_x)
                /\ F64Eq(a.in_edge_y, b.in_edge_y) /\ F64Eq(a.ex_edge_y, b.ex_edge_y)
                /\ a.count = b.count

-----------------------------------------------------------------------------
(* Collection<T>: the Vec of its elements. *)

Collection_eq(T, a, b) ==
    Len(a) = Len(b) /\ \A i \in 1..Len(a) : T_eq(T, a[i], b[i])

\* map as it would be if the results were collected from the last to the first
Collection_map_reversed(vec, close) ==
    [i \in 1..Len(vec) |-> close[vec[Len(vec) + 1 - i]]]

\* Collection::map: vec.iter().map(close).collect().  The closure is the
\* function from the records to what it returns for them.
Collection_map(vec, close) ==
    [i \in 1..Len(vec) |-> close[vec[i]]]

\* cut as it would be if it kept the elements that fail the test
Collection_cut_rejected(vec, close) ==
    SelectSeq(vec, LAMBDA x : x \notin close)

\* Collection::cut: vec.iter().filter(close).cloned().collect().  The test
\* is the set of the records it passes.
Collection_cut(vec, close) ==
    SelectSeq(vec, LAMBDA x : x \in close)

\* the value of an f64 that is a whole number below 65536 in size
F64Whole(x) ==
    Let(F64Trunc(x), LAMBDA l :
        (IF F64Parts(x).neg THEN -1 ELSE 1) * (IF l = <<>> THEN 0 ELSE l[1]))

\* the second loop of hist over the sorted elements from the k-th on: an
\* element outside the current bin moves c_bin on by one and is counted
\* there; out.at(c_bin) past the last bin is an index out of range.  unit is
\* what the edges are a multiple of.
RECURSIVE HistLoop(_, _, _, _, _)
HistLoop(st_vec, k, c_bin, out, unit) ==
    IF k > Len(st_vec) THEN OkT(out)
    ELSE Let(IF /\ st_vec[k] * unit >= out[c_bin + 1].in_edge
                /\ st_vec[k] * unit < out[c_bin + 1].ex_edge
             THEN c_bin ELSE c_bin + 1, LAMBDA c :
             IF c >= Len(out) THEN Panic
             ELSE HistLoop(st_vec, k + 1, c,
                           [out EXCEPT ![c + 1].count = @ + 1], unit))

\* Collection<f64>::hist on whole numbers.  width is (max + 0.01 - min) /
\* num_bins, so the edges min + width * i are multiples of 1 / (100 *
\* num_bins) and are kept as their number of such units; no edge but the
\* first is a whole number, and each comparison of an element with an edge
\* comes out as it does in f64.  st_vec[len-1] of an empty collection and
\* num_bins < 2 panic.
Collection_hist(vec, num_bins) ==
    Let(SortSeq([i \in 1..Len(vec) |-> F64Whole(vec[i])], <), LAMBDA st_vec :
        IF num_bins < 2 \/ Len(st_vec) = 0 THEN Panic
        ELSE
    Let(100 * num_bins, LAMBDA unit :
    Let(100 * (st_vec[Len(st_vec)] - st_vec[1]) + 1, LAMBDA width :
        HistLoop(st_vec, 1, 0,
                 [i \in 1..num_bins |->
                    [in_edge |-> st_vec[1] * unit + width * (i - 1),
                     ex_edge |-> st_vec[1] * unit + width * i,
                     count |-> 0]],
                 unit))))

Collection_to_json(T, vec) ==
    "[" \o Join([i \in 1..Len(vec) |-> T_to_json(T, vec[i])], ",") \o "]"

RECURSIVE ConcatAll(_)
ConcatAll(bss) ==
    IF Len(bss) = 0 THEN <<>> ELSE bss[1] \o ConcatAll(Tail(bss))

Collection_to_msg(T, vec) ==
    write_array_len(Len(vec)) \o ConcatAll([i \in 1..Len(vec) |-> T_to_msg(T, vec[i])])

\* the loop of Collection::from_json over the pieces between '|'
RECURSIVE FromJsonLoop(_, _, _)
FromJsonLoop(T, ffs, out) ==
    IF Len(ffs) = 0 THEN OkT(out)
    ELSE Let(T_from_json(T, ffs[1]), LAMBDA f :
             IF f = Panic THEN Panic
             ELSE IF ~f.ok THEN Err("ParseError")
             ELSE FromJsonLoop(T, Tail(ffs), Append(out, f.val)))

Collection_from_json(T, s) ==
    Let(IF StartsWith(s, "[{") THEN Replace(s, "},{", "}|{")
        ELSE Replace(s, ",", "|"), LAMBDA s_iter :
        FromJsonLoop(T, Split(TrimMatches(s_iter, {"[", "]"}), "|"), <<>>))

\* the loop as it would be if every element were read from where the first is
RECURSIVE FromMsgLoopStuck(_, _, _, _)
FromMsgLoopStuck(T, bytes, len, out) ==
    IF len = 0 THEN Ok(out, bytes)
    ELSE Let(T_from_msg(T, bytes), LAMBDA r :
             IF ~r.ok THEN Err("ParseError")
             ELSE IF len = 1 THEN Ok(Append(out, r.val), r.rest)
             ELSE FromMsgLoopStuck(T, bytes, len - 1, Append(out, r.val)))

\* the loop of Collection::from_msg: len elements, each from where the one
\* before ended
RECURSIVE FromMsgLoop(_, _, _, _)
FromMsgLoop(T, bytes, len, out) ==
    IF len = 0 THEN Ok(out, bytes)
    ELSE Let(T_from_msg(T, bytes), LAMBDA r :
             IF r = Panic THEN Panic
             ELSE IF ~r.ok THEN Err("ParseError")
             ELSE FromMsgLoop(T, r.rest, len - 1, Append(out, r.val)))

Collection_from_msg(T, bytes) ==
    Let(read_array_len(bytes), LAMBDA h :
        IF h.ok THEN FromMsgLoop(T, h.rest, h.val, <<>>) ELSE Err("ParseError"))

-----------------------------------------------------------------------------
(* HashMap<String, V>: a function on the set of its keys.  Iteration visits
   the keys in an order the map chooses; an encoder takes that order as a
   sequence holding every key once. *)

EmptyMap == [k \in {} |-> 0]

\* HashMap::insert: the map afterwards (the old entry, if any, is replaced)
Insert(m, key, v) ==
    [k \in DOMAIN m \cup {key} |-> IF k = key THEN v ELSE m[k]]

IterOrders(m) ==
    {o \in [1..Cardinality(DOMAIN m) -> DOMAIN m] :
        \A i, j \in DOMAIN o : i # j => o[i] # o[j]}

-----------------------------------------------------------------------------
(* Branch: the subtype tag, the boxed collection (vec, with T the element
   type it was built as) and the extract buffer (<<"None">> or <<"Some", bytes>>). *)

Branch_new(subtype, T, vec) ==
    [subtype |-> subtype, T |-> T, branch |-> vec, buffer |-> <<"None">>]

Branch_to_msg(b) ==
    write_map_len(2) \o write_str("subtype") \o write_str(b.subtype)
        \o write_str("branch") \o Collection_to_msg(b.T, b.branch)

\* The collection is read from `unparsed` (after the three strings) for
\* f64, FourVec and FourMat, and from `bytes` (after the map header) for
\* Bin, Point and PointBin.
Branch_from_msg(bytes0) ==
    Let(read_map_len(bytes0), LAMBDA h :
        IF ~h.ok THEN Err("ParseError")
        ELSE
    Let(h.rest, LAMBDA bytes :
    Let(read_str_from_slice(bytes), LAMBDA k1 :
        IF ~k1.ok THEN Err("ParseError")
        ELSE
    Let(read_str_from_slice(k1.rest), LAMBDA st :
        IF ~st.ok THEN Err("ParseError")
        ELSE
    Let(read_str_from_slice(st.rest), LAMBDA k2 :
        IF ~k2.ok THEN Err("ParseError")
        ELSE
    Let(k2.rest, LAMBDA unparsed :
    Let(st.val, LAMBDA subtype :
        IF subtype = "Object" THEN Err("ObjectBranchDeserializeError")
        ELSE IF subtype \notin Decodable THEN Err("ParseError")
        ELSE
    Let(Collection_from_msg(subtype,
            IF subtype \in {"f64", "FourVec", "FourMat"} THEN unparsed ELSE bytes),
        LAMBDA r :
        IF r.ok THEN Ok(Branch_new(subtype, subtype, r.val), r.rest)
        ELSE Err("ParseError")))))))))

\* String::to_json wraps the tag in quotes
Branch_to_json(b) ==
    "{\"subtype\":\"" \o b.subtype \o "\",\"branch\":"
        \o Collection_to_json(b.T, b.branch) \o "}"

\* The text is trimmed of the characters of {"subtype":} at both ends and
\* split at ,"branch": ; a third piece is an error.  The match on the tag has
\* no arm for "Object".
Branch_from_json(s) ==
    Let(Split(TrimMatches(s, {"{", "\"", "s", "u", "b", "t", "y", "p", "e", ":", "}"}),
              ",\"branch\":"), LAMBDA dims :
        IF Len(dims) > 2 THEN Err("ParseError")
        ELSE
    Let(TrimMatches(dims[1], {"\""}), LAMBDA subtype :
        IF subtype \notin Decodable THEN Err("ParseError")
        ELSE
    Let(Collection_from_json(subtype, IF Len(dims) = 2 THEN dims[2] ELSE ""), LAMBDA r :
        IF r.ok THEN OkT(Branch_new(subtype, subtype, r.val)) ELSE r)))

\* extract as it would be if bytes that do not decode gave an empty collection
Branch_extract_lenient(b, T) ==
    Let(IF b.buffer = <<"None">>
        THEN Collection_to_msg(b.T, b.branch) ELSE b.buffer[2], LAMBDA buffer :
    Let(Collection_from_msg(T, buffer), LAMBDA r :
        [branch |-> [b EXCEPT !.buffer = <<"Some", buffer>>],
         out |-> IF r.ok THEN OkT(r.val) ELSE OkT(<<>>)]))

\* extract as it would be if the bytes were made anew on every call and
\* never kept
Branch_extract_uncached(b, T) ==
    Let(Collection_from_msg(T, Collection_to_msg(b.T, b.branch)), LAMBDA r :
        [branch |-> b, out |-> IF r.ok THEN OkT(r.val) ELSE Err("ParseError")])

\* Branch::extract::<T>: the branch afterwards (its buffer filled) and the result
Branch_extract(b, T) ==
    Let(IF b.buffer = <<"None">>
        THEN Collection_to_msg(b.T, b.branch) ELSE b.buffer[2], LAMBDA buffer :
    Let(Collection_from_msg(T, buffer), LAMBDA r :
        [branch |-> [b EXCEPT !.buffer = <<"Some", buffer>>],
         out |-> IF r.ok THEN OkT(r.val) ELSE Err("ParseError")]))

-----------------------------------------------------------------------------
(* FeedTree<T>: metadata and datafeeds, both maps. *)

FeedTree_new(name, subtype) ==
    [metadata |-> Insert(Insert(EmptyMap, "Name", name), "SubType", subtype),
     datafeeds |-> EmptyMap]

\* add_field as it would be if a used key were overwritten without a word
FeedTree_add_field_silent(t, key, f) ==
    <<[t EXCEPT !.metadata = Insert(t.metadata, key, f)], "Ok">>

\* add_field and add_feed insert first and look at what insert returned
\* afterwards: <<tree afterwards, result>>
FeedTree_add_field(t, key, f) ==
    <<[t EXCEPT !.metadata = Insert(t.metadata, key, f)],
      IF key \in DOMAIN t.metadata THEN "KeyError" ELSE "Ok">>

\* add_feed as it would be if the new feed took the place of the others
FeedTree_add_feed_alone(t, key, f) ==
    <<[t EXCEPT !.datafeeds = Insert(EmptyMap, key, f)],
      IF key \in DOMAIN t.datafeeds THEN "KeyError" ELSE "Ok">>

FeedTree_add_feed(t, key, f) ==
    <<[t EXCEPT !.datafeeds = Insert(t.datafeeds, key, f)],
      IF key \in DOMAIN t.datafeeds THEN "KeyError" ELSE "Ok">>

\* write as it would be if an absent key were given an empty feed
FeedTree_write_or_default(t, key, data) ==
    IF key \in DOMAIN t.datafeeds
    THEN <<[t EXCEPT !.datafeeds[key] = Append(@, data)], "Ok">>
    ELSE <<[t EXCEPT !.datafeeds = Insert(t.datafeeds, key, <<>>)], "KeyError">>

FeedTree_write(t, key, data) ==
    IF key \in DOMAIN t.datafeeds
    THEN <<[t EXCEPT !.datafeeds[key] = Append(@, data)], "Ok">>
    ELSE <<t, "KeyError">>

\* to_msg as it would be if the outer header counted the metadata only
FeedTree_to_msg_uncounted(T, t, mo, fo) ==
    write_map_len(Cardinality(DOMAIN t.metadata))
        \o ConcatAll([i \in 1..Len(mo) |->
                        write_str(mo[i]) \o write_str(t.metadata[mo[i]])])
        \o write_str("datafeeds")
        \o write_map_len(Cardinality(DOMAIN t.datafeeds))
        \o ConcatAll([i \in 1..Len(fo) |->
                        write_str(fo[i]) \o Collection_to_msg(T, t.datafeeds[fo[i]])])

\* to_msg, with the orders mo and fo in which the two maps are iterated
FeedTree_to_msg(T, t, mo, fo) ==
    write_map_len(Cardinality(DOMAIN t.metadata) + 1)
        \o ConcatAll([i \in 1..Len(mo) |->
                        write_str(mo[i]) \o write_str(t.metadata[mo[i]])])
        \o write_str("datafeeds")
        \o write_map_len(Cardinality(DOMAIN t.datafeeds))
        \o ConcatAll([i \in 1..Len(fo) |->
                        write_str(fo[i]) \o Collection_to_msg(T, t.datafeeds[fo[i]])])

\* The first loop of from_msg: n more passes from `bytes`.  A pass that
\* cannot read its key or its value leaves `bytes` where it was, so every
\* later pass fails the same way and the loop ends as it stands.
RECURSIVE MetadataLoop(_, _, _)
MetadataLoop(bytes, n, metadata) ==
    IF n = 0 THEN <<bytes, metadata>>
    ELSE Let(read_str_from_slice(bytes), LAMBDA k :
             IF ~k.ok THEN <<bytes, metadata>>
             ELSE IF k.val = "datafeeds" THEN <<k.rest, metadata>>
             ELSE Let(read_str_from_slice(k.rest), LAMBDA v :
                      IF ~v.ok THEN <<bytes, metadata>>
                      ELSE MetadataLoop(v.rest, n - 1, Insert(metadata, k.val, v.val))))

\* The second loop of from_msg, the same way
RECURSIVE DatafeedsLoop(_, _, _, _)
DatafeedsLoop(T, bytes, n, datafeeds) ==
    IF n = 0 THEN <<bytes, datafeeds>>
    ELSE Let(read_str_from_slice(bytes), LAMBDA k :
             IF ~k.ok THEN <<bytes, datafeeds>>
             ELSE Let(Collection_from_msg(T, k.rest), LAMBDA v :
                      IF ~v.ok THEN <<bytes, datafeeds>>
                      ELSE DatafeedsLoop(T, v.rest, n - 1, Insert(datafeeds, k.val, v.val))))

FeedTree_from_msg(T, bytes0) ==
    Let(read_map_len(bytes0), LAMBDA h :
        IF ~h.ok
        THEN Ok([metadata |-> EmptyMap, datafeeds |-> EmptyMap], h.rest)
        ELSE Let(MetadataLoop(h.rest, h.val, EmptyMap), LAMBDA m :
             Let(read_map_len(m[1]), LAMBDA g :
                 IF ~g.ok
                 THEN Ok([metadata |-> m[2], datafeeds |-> EmptyMap], g.rest)
                 ELSE Let(DatafeedsLoop(T, g.rest, g.val, EmptyMap), LAMBDA d :
                          Ok([metadata |-> m[2], datafeeds |-> d[2]], d[1])))))

\* out.pop() takes the last character away: the ',' after the last feed or,
\* of a tree without feeds, the '{' just written
FeedTree_to_json(T, t, mo, fo) ==
    Let("{" \o Join([i \in 1..Len(mo) |->
                        "\"" \o mo[i] \o "\":\"" \o t.metadata[mo[i]] \o "\","], "")
            \o "\"datafeeds\":{"
            \o Join([i \in 1..Len(fo) |->
                        "\"" \o fo[i] \o "\":" \o Collection_to_json(T, t.datafeeds[fo[i]])
                            \o ","], ""), LAMBDA out :
        SubSeq(out, 1, Len(out) - 1) \o "}}")

\* the loop of from_json over the metadata pairs; ar[1] of a pair without
\* "\":\"" is out of range
RECURSIVE MetadataPairs(_, _)
MetadataPairs(pairs, metadata) ==
    IF Len(pairs) = 0 THEN OkT(metadata)
    ELSE Let(Split(pairs[1], "\":\""), LAMBDA ar :
             IF Len(ar) < 2 THEN Panic
             ELSE MetadataPairs(Tail(pairs), Insert(metadata, ar[1], ar[2])))

\* the loop of from_json over the feed pairs
RECURSIVE DatafeedsPairs(_, _, _)
DatafeedsPairs(T, pairs, datafeeds) ==
    IF Len(pairs) = 0 THEN OkT(datafeeds)
    ELSE Let(Split(pairs[1], "\":"), LAMBDA ar :
         Let(Collection_from_json(T, Join(Tail(ar), "\":")), LAMBDA feed :
             IF feed = Panic THEN Panic
             ELSE IF ~feed.ok THEN Err("ParseError")
             ELSE DatafeedsPairs(T, Tail(pairs), Insert(datafeeds, ar[1], feed.val))))

FeedTree_from_json(T, s) ==
    Let(Split(s, ",\"datafeeds\":"), LAMBDA dims :
    Let(MetadataPairs(Split(TrimMatches(dims[1], {"{", "\""}), "\",\""), EmptyMap),
        LAMBDA metadata :
        IF ~metadata.ok THEN metadata
        ELSE IF Len(dims) = 1
        THEN OkT([metadata |-> metadata.val, datafeeds |-> EmptyMap])
        ELSE
    Let(DatafeedsPairs(T, Split(TrimMatches(dims[2], {"{", "}", "\""}), "],\""), EmptyMap),
        LAMBDA datafeeds :
        IF ~datafeeds.ok THEN datafeeds
        ELSE IF Len(dims) > 2 THEN Err("ParseError")
        ELSE OkT([metadata |-> metadata.val, datafeeds |-> datafeeds.val]))))

\* #[derive(PartialEq)] of FeedTree
FeedTree_eq(T, a, b) ==
    /\ a.metadata = b.metadata
    /\ DOMAIN a.datafeeds = DOMAIN b.datafeeds
    /\ \A k \in DOMAIN a.datafeeds : Collection_eq(T, a.datafeeds[k], b.datafeeds[k])

-----------------------------------------------------------------------------
(* Tree: metadata and branches; a branch is the tag and the collection. *)

Tree_new(name) ==
    [metadata |-> Insert(EmptyMap, "Name", name), branches |-> EmptyMap]

\* add_field returns nothing
Tree_add_field(t, key, f) ==
    [t EXCEPT !.metadata = Insert(t.metadata, key, f)]

TreeSubtypes ==
    {"f64", "String", "ThreeVec", "ThreeMat", "FourVec", "FourMat", "Bin", "Point"}

\* add_branch as it would be if the tag were not looked at
Tree_add_branch_any(t, key, b, tag) ==
    <<[t EXCEPT !.branches = Insert(t.branches, key, [subtype |-> tag, branch |-> b])],
      "()">>

\* add_branch returns nothing or panics: <<tree afterwards, "()" or "panic">>
Tree_add_branch(t, key, b, tag) ==
    IF tag \in TreeSubtypes
    THEN <<[t EXCEPT !.branches = Insert(t.branches, key, [subtype |-> tag, branch |-> b])],
           "()">>
    ELSE <<t, "panic">>

\* Branch::to_msg of the Tree's own Branch: the collection first, then the
\* tag.  The collections of the Trees here hold f64.
TreeBranch_to_msg(b) ==
    write_map_len(2)
        \o write_str("branch") \o Collection_to_msg("f64", b.branch)
        \o write_str("subtype") \o write_str(b.subtype)

\* Tree::to_msg, the two maps iterated in the orders mo and bo
Tree_to_msg(t, mo, bo) ==
    write_map_len(Cardinality(DOMAIN t.metadata) + 1)
        \o ConcatAll([i \in 1..Len(mo) |->
                        write_str(mo[i]) \o write_str(t.metadata[mo[i]])])
        \o write_str("branches")
        \o write_map_len(Cardinality(DOMAIN t.branches))
        \o ConcatAll([i \in 1..Len(bo) |->
                        write_str(bo[i]) \o TreeBranch_to_msg(t.branches[bo[i]])])

\* Tree::to_json; a Branch is written as {"branch":<collection>,"subtype":"<tag>"}
\* (Branch::to_json of the same file), and out.pop() takes the last character
\* away as in FeedTree::to_json
Tree_to_json(t, mo, bo) ==
    Let("{" \o Join([i \in 1..Len(mo) |->
                        "\"" \o mo[i] \o "\":\"" \o t.metadata[mo[i]] \o "\","], "")
            \o "\"branches\":{"
            \o Join([i \in 1..Len(bo) |->
                        "\"" \o bo[i] \o "\":{\"branch\":"
                            \o Collection_to_json("f64", t.branches[bo[i]].branch)
                            \o ",\"subtype\":\"" \o t.branches[bo[i]].subtype \o "\"},"], ""),
        LAMBDA out : SubSeq(out, 1, Len(out) - 1) \o "}}")

-----------------------------------------------------------------------------
(* The FeedTree<f64> state machine: a tree made by FeedTree::new, then any
   calls of add_field, add_feed and write.  fres is the last call and what
   it returned, fprev the tree before it.  fhist holds, for each key, the
   collection of the add_feed that was accepted for it followed by the
   records of the writes that were accepted for it. *)

MaxFeedLen == 2

FieldKeys == {"Name", "SubType", "Desc"}
FieldValues == {"a", "b"}
FeedKeys == {"f", "g"}
FeedSeeds == {<<>>, <<F(1)>>}
FeedData == {F(2)}

\* the variables of the other machines, at rest
FeedGhostIdle ==
    /\ fprev = ftree
    /\ fhist = EmptyMap

TreeIdle ==
    /\ tree = Tree_new("T")
    /\ tres = [op |-> "new"]
    /\ tprev = tree

CodecIdle ==
    /\ col = [T |-> "f64", vec |-> <<>>]
    /\ cres = [op |-> "empty"]

\* Universe::run has not been called
UniverseIdle == uni = [pc |-> "off"]

Init ==
    /\ ftree = FeedTree_new("T", "f64")
    /\ fres = [op |-> "new"]
    /\ FeedGhostIdle
    /\ TreeIdle
    /\ CodecIdle
    /\ UniverseIdle

add_field(key, f) ==
    Let(FeedTree_add_field(ftree, key, f), LAMBDA r :
        /\ ftree' = r[1]
        /\ fres' = [op |-> "add_field", key |-> key, ret |-> r[2]]
        /\ fprev' = ftree
        /\ UNCHANGED <<fhist, tree, tres, tprev, col, cres, uni>>)

add_feed(key, f) ==
    Let(FeedTree_add_feed(ftree, key, f), LAMBDA r :
        /\ ftree' = r[1]
        /\ fres' = [op |-> "add_feed", key |-> key, ret |-> r[2]]
        /\ fprev' = ftree
        /\ fhist' = IF r[2] = "Ok" THEN Insert(fhist, key, f) ELSE fhist
        /\ UNCHANGED <<tree, tres, tprev, col, cres, uni>>)

\* at most MaxFeedLen records are followed for a key
write(key, data) ==
    Let(FeedTree_write(ftree, key, data), LAMBDA r :
        /\ key \in DOMAIN fhist => Len(fhist[key]) < MaxFeedLen
        /\ ftree' = r[1]
        /\ fres' = [op |-> "write", key |-> key, data |-> data, ret |-> r[2]]
        /\ fprev' = ftree
        /\ fhist' = IF r[2] = "Ok" THEN [fhist EXCEPT ![key] = Append(@, data)]
                    ELSE fhist
        /\ UNCHANGED <<tree, tres, tprev, col, cres, uni>>)

Next ==
    \/ \E key \in FieldKeys, f \in FieldValues : add_field(key, f)
    \/ \E key \in FeedKeys, f \in FeedSeeds : add_feed(key, f)
    \/ \E key \in FeedKeys, data \in FeedData : write(key, data)

Spec == Init /\ [][Next]_vars

-----------------------------------------------------------------------------
(* The FeedTree<f64> encoding bench: any tree the calls above can build,
   encoded and decoded once.  fres is the result of the decode. *)

WireFields == {"Desc", "datafeeds"}

\* the feeds <<>>, <<1.0>>, <<1.0, 2.0>>, ...
WireFeeds == {[i \in 1..n |-> F(i)] : n \in 0..MaxFeedLen}

WireTrees ==
    {[metadata |-> [k \in {"Name", "SubType"} \cup ks |->
                        IF k = "Name" THEN "T" ELSE IF k = "SubType" THEN "f64" ELSE "a"],
      datafeeds |-> d] :
        ks \in SUBSET WireFields,
        d \in UNION {[fs -> WireFeeds] : fs \in SUBSET FeedKeys}}

InitWire ==
    /\ ftree \in WireTrees
    /\ fres = [op |-> "new"]
    /\ FeedGhostIdle
    /\ TreeIdle
    /\ CodecIdle
    /\ UniverseIdle

\* FeedTree::from_msg(&t.to_msg()), the two maps iterated in the orders mo and fo
msg_round_trip(mo, fo) ==
    /\ fres.op = "new"
    /\ tres.op = "new"
    /\ fres' = Let(FeedTree_to_msg("f64", ftree, mo, fo), LAMBDA bytes :
                    [op |-> "from_msg", mo |-> mo, fo |-> fo, bytes |-> bytes,
                     ret |-> FeedTree_from_msg("f64", bytes)])
    /\ UNCHANGED <<ftree, fprev, fhist, tree, tres, tprev, col, cres, uni>>

\* FeedTree::from_msg on t.to_msg() without its last `drop` bytes
msg_truncated(mo, fo, drop) ==
    /\ fres.op = "new"
    /\ tres.op = "new"
    /\ fres' = [op |-> "from_msg_truncated", drop |-> drop,
                ret |-> Let(FeedTree_to_msg("f64", ftree, mo, fo), LAMBDA bytes :
                            FeedTree_from_msg("f64", SubSeq(bytes, 1, Len(bytes) - drop)))]
    /\ UNCHANGED <<ftree, fprev, fhist, tree, tres, tprev, col, cres, uni>>

\* FeedTree::from_json(&t.to_json()), the two maps iterated in the orders mo
\* and fo
json_round_trip(mo, fo) ==
    /\ fres.op = "new"
    /\ tres.op = "new"
    /\ fres' = Let(FeedTree_to_json("f64", ftree, mo, fo), LAMBDA text :
                    [op |-> "from_json", mo |-> mo, fo |-> fo, text |-> text,
                     ret |-> FeedTree_from_json("f64", text)])
    /\ UNCHANGED <<ftree, fprev, fhist, tree, tres, tprev, col, cres, uni>>

\* t.to_msg() of the Tree t with the metadata of ftree and its feeds as
\* "f64" branches, the two maps iterated in the orders mo and bo
tree_to_msg(mo, bo) ==
    /\ fres.op = "new"
    /\ tres.op = "new"
    /\ tres' = Let([metadata |-> ftree.metadata,
                    branches |-> [k \in DOMAIN ftree.datafeeds |->
                                    [subtype |-> "f64", branch |-> ftree.datafeeds[k]]]],
                   LAMBDA t : [op |-> "to_msg", tree |-> t, mo |-> mo, bo |-> bo,
                               bytes |-> Tree_to_msg(t, mo, bo)])
    /\ UNCHANGED <<ftree, fres, fprev, fhist, tree, tprev, col, cres, uni>>

\* t.to_json() of the same Tree
tree_to_json(mo, bo) ==
    /\ fres.op = "new"
    /\ tres.op = "new"
    /\ tres' = Let([metadata |-> ftree.metadata,
                    branches |-> [k \in DOMAIN ftree.datafeeds |->
                                    [subtype |-> "f64", branch |-> ftree.datafeeds[k]]]],
                   LAMBDA t : [op |-> "to_json", tree |-> t,
                               text |-> Tree_to_json(t, mo, bo)])
    /\ UNCHANGED <<ftree, fres, fprev, fhist, tree, tprev, col, cres, uni>>

NextWire ==
    \/ \E mo \in IterOrders(ftree.metadata), fo \in IterOrders(ftree.datafeeds) :
            msg_round_trip(mo, fo)
    \/ \E mo \in IterOrders(ftree.metadata), fo \in IterOrders(ftree.datafeeds),
          drop \in {1, 3, 12} : msg_truncated(mo, fo, drop)
    \/ \E mo \in IterOrders(ftree.metadata), bo \in IterOrders(ftree.datafeeds) :
            tree_to_msg(mo, bo)
    \/ \E mo \in IterOrders(ftree.metadata), fo \in IterOrders(ftree.datafeeds) :
            json_round_trip(mo, fo)
    \/ \E mo \in IterOrders(ftree.metadata), bo \in IterOrders(ftree.datafeeds) :
            tree_to_json(mo, bo)

SpecWire == InitWire /\ [][NextWire]_vars

-----------------------------------------------------------------------------
(* The Tree state machine: a tree made by Tree::new, then any calls of
   add_field and add_branch; a panic ends the run.  tres is the last call
   and how it ended, tprev the tree before it. *)

TreeFieldKeys == {"Name", "Desc"}
BranchKeys == {"p", "q"}
BranchCollections == {<<>>, <<F(1)>>}
BranchTags == {"f64", "Bin", "PointBin", "Object", "u8"}

FeedIdle ==
    /\ ftree = FeedTree_new("T", "f64")
    /\ fres = [op |-> "new"]
    /\ FeedGhostIdle

InitTree ==
    /\ tree = Tree_new("T")
    /\ tres = [op |-> "new"]
    /\ tprev = tree
    /\ FeedIdle
    /\ CodecIdle
    /\ UniverseIdle

tree_add_field(key, f) ==
    /\ tres.op # "panic"
    /\ tree' = Tree_add_field(tree, key, f)
    /\ tres' = [op |-> "add_field", key |-> key, ret |-> "()"]
    /\ tprev' = tree
    /\ UNCHANGED <<ftree, fres, fprev, fhist, col, cres, uni>>

tree_add_branch(key, b, tag) ==
    Let(Tree_add_branch(tree, key, b, tag), LAMBDA r :
        /\ tres.op # "panic"
        /\ tree' = r[1]
        /\ tres' = IF r[2] = "panic" THEN [op |-> "panic", key |-> key, tag |-> tag]
                   ELSE [op |-> "add_branch", key |-> key, tag |-> tag, ret |-> r[2]]
        /\ tprev' = tree
        /\ UNCHANGED <<ftree, fres, fprev, fhist, col, cres, uni>>)

NextTree ==
    \/ \E key \in TreeFieldKeys, f \in FieldValues : tree_add_field(key, f)
    \/ \E key \in BranchKeys, b \in BranchCollections, tag \in BranchTags :
            tree_add_branch(key, b, tag)

SpecTree == InitTree /\ [][NextTree]_vars

-----------------------------------------------------------------------------
(* The collection bench: a Collection<T> grown from Collection::empty() by
   push, and the encode-then-decode passes over it, over one record and over
   the Branch holding it.  cres is the last pass and what it returned; a
   pass starts from the collection as push left it, and push goes on after
   any pass. *)

MaxLen == 2

\* 2^53 + 1, the least count that no f64 holds
BigCount == <<32, 0, 0, 1>>

\* extract is followed for this many calls on one Branch
MaxExtracts == 2

Values(T) ==
    CASE T = "f64" -> {F(1), F(-2)}
      [] T = "Point" -> {[x |-> F(0), y |-> F(1)], [x |-> F(2), y |-> F(3)]}
      [] T = "Bin" -> {[count |-> U(10), in_edge |-> F(0), ex_edge |-> F(1)],
                       [count |-> BigCount, in_edge |-> F(1), ex_edge |-> F(2)]}
      [] T = "PointBin" ->
            {[count |-> U(3), in_edge_x |-> F(0), ex_edge_x |-> F(1),
              in_edge_y |-> F(-1), ex_edge_y |-> F(2)],
             [count |-> BigCount, in_edge_x |-> F(1), ex_edge_x |-> F(2),
              in_edge_y |-> F(2), ex_edge_y |-> F(5)]}
      [] T = "FourVec" -> {[m0 |-> F(1), m1 |-> F(-2), m2 |-> F(3), m3 |-> F(0)],
                           [m0 |-> F(4), m1 |-> F(0), m2 |-> F(0), m3 |-> F(7)]}
      [] T = "FourMat" ->
            {[n0 |-> [m0 |-> F(1), m1 |-> F(0), m2 |-> F(0), m3 |-> F(0)],
              n1 |-> [m0 |-> F(0), m1 |-> F(1), m2 |-> F(0), m3 |-> F(0)],
              n2 |-> [m0 |-> F(0), m1 |-> F(0), m2 |-> F(1), m3 |-> F(0)],
              n3 |-> [m0 |-> F(0), m1 |-> F(0), m2 |-> F(0), m3 |-> F(1)]],
             [n0 |-> [m0 |-> F(1), m1 |-> F(2), m2 |-> F(3), m3 |-> F(4)],
              n1 |-> [m0 |-> F(5), m1 |-> F(6), m2 |-> F(7), m3 |-> F(8)],
              n2 |-> [m0 |-> F(-1), m1 |-> F(-2), m2 |-> F(-3), m3 |-> F(-4)],
              n3 |-> [m0 |-> F(0), m1 |-> F(0), m2 |-> F(0), m3 |-> F(9)]]}

\* the bytes that follow an encoding in the stream: none, a byte, the
\* start of another array
Tails == {<<>>, <<1>>, <<146, 203>>}

InitCodec ==
    /\ \E T \in Decodable : col = [T |-> T, vec |-> <<>>]
    /\ cres = [op |-> "empty"]
    /\ FeedIdle
    /\ TreeIdle
    /\ UniverseIdle

push(x) ==
    /\ Len(col.vec) < MaxLen
    /\ col' = [col EXCEPT !.vec = Append(@, x)]
    /\ cres' = [op |-> "push"]
    /\ UNCHANGED <<ftree, fres, fprev, fhist, tree, tres, tprev, uni>>

\* T::from_json(&x.to_json())
record_json(x) ==
    /\ cres.op \in {"empty", "push"}
    /\ cres' = [op |-> "record_json", x |-> x,
                ret |-> T_from_json(col.T, T_to_json(col.T, x))]
    /\ UNCHANGED <<col, ftree, fres, fprev, fhist, tree, tres, tprev, uni>>

\* T::from_msg(&x.to_msg())
record_msg(x) ==
    /\ cres.op \in {"empty", "push"}
    /\ cres' = [op |-> "record_msg", x |-> x,
                ret |-> T_from_msg(col.T, T_to_msg(col.T, x))]
    /\ UNCHANGED <<col, ftree, fres, fprev, fhist, tree, tres, tprev, uni>>

\* Collection::<T>::from_json(&c.to_json())
collection_json ==
    /\ cres.op \in {"empty", "push"}
    /\ cres' = [op |-> "collection_json",
                ret |-> Collection_from_json(col.T, Collection_to_json(col.T, col.vec))]
    /\ UNCHANGED <<col, ftree, fres, fprev, fhist, tree, tres, tprev, uni>>

\* Collection::<T>::from_msg on c.to_msg() followed by tail
collection_msg(tail) ==
    /\ cres.op \in {"empty", "push"}
    /\ cres' = [op |-> "collection_msg", tail |-> tail,
                ret |-> Collection_from_msg(col.T, Collection_to_msg(col.T, col.vec) \o tail)]
    /\ UNCHANGED <<col, ftree, fres, fprev, fhist, tree, tres, tprev, uni>>

\* Branch::from_msg(&Branch::new(tag, c).to_msg()), then extract::<T>() on
\* the decoded Branch
branch_msg ==
    Let(Branch_from_msg(Branch_to_msg(Branch_new(col.T, col.T, col.vec))), LAMBDA r :
        /\ cres.op \in {"empty", "push"}
        /\ cres' = [op |-> "branch_msg", ret |-> r,
                    ext |-> IF r.ok THEN Branch_extract(r.val, col.T).out
                            ELSE Err("None")]
        /\ UNCHANGED <<col, ftree, fres, fprev, fhist, tree, tres, tprev, uni>>)

\* Branch::from_msg and Branch::from_json on the encodings of
\* Branch::new(tag, c), for a tag that names no decodable type
branch_tag(tag) ==
    Let(Branch_new(tag, col.T, col.vec), LAMBDA b :
        /\ cres.op \in {"empty", "push"}
        /\ cres' = [op |-> "branch_tag", tag |-> tag,
                    msg |-> Branch_from_msg(Branch_to_msg(b)),
                    json |-> Branch_from_json(Branch_to_json(b))]
        /\ UNCHANGED <<col, ftree, fres, fprev, fhist, tree, tres, tprev, uni>>)

\* extract::<T>() on Branch::new(tag, c), and again on the same Branch:
\* `before` is the Branch before the call, `first` what the first call gave
extract ==
    Let(IF cres.op = "extract" THEN cres.branch
        ELSE Branch_new(col.T, col.T, col.vec), LAMBDA b :
    Let(Branch_extract(b, col.T), LAMBDA e :
        /\ IF cres.op = "extract" THEN cres.calls < MaxExtracts
           ELSE cres.op \in {"empty", "push"}
        /\ cres' = [op |-> "extract",
                    calls |-> IF cres.op = "extract" THEN cres.calls + 1 ELSE 1,
                    before |-> b, branch |-> e.branch, out |-> e.out,
                    first |-> IF cres.op = "extract" THEN cres.first ELSE e.out]
        /\ UNCHANGED <<col, ftree, fres, fprev, fhist, tree, tres, tprev, uni>>))

\* Branch::new(tag, c).extract::<T>() for any tag and any decodable T
extract_as(T, tag) ==
    /\ cres.op \in {"empty", "push"}
    /\ cres' = [op |-> "extract_as", T |-> T, tag |-> tag,
                out |-> Branch_extract(Branch_new(tag, col.T, col.vec), T).out]
    /\ UNCHANGED <<col, ftree, fres, fprev, fhist, tree, tres, tprev, uni>>

\* c.cut(close); src is c after the call
cut(close) ==
    /\ cres.op \in {"empty", "push"}
    /\ cres' = [op |-> "cut", close |-> close, ret |-> Collection_cut(col.vec, close),
                src |-> col.vec]
    /\ UNCHANGED <<col, ftree, fres, fprev, fhist, tree, tres, tprev, uni>>

\* c.map(close), for closures that return an f64; src is c before the call
map(close) ==
    /\ cres.op \in {"empty", "push"}
    /\ cres' = [op |-> "map", close |-> close, ret |-> Collection_map(col.vec, close),
                src |-> col.vec]
    /\ UNCHANGED <<col, ftree, fres, fprev, fhist, tree, tres, tprev, uni>>

\* c.hist(num_bins) of a Collection<f64>; src is c after the call
hist(num_bins) ==
    /\ cres.op \in {"empty", "push"}
    /\ col.T = "f64"
    /\ cres' = [op |-> "hist", num_bins |-> num_bins,
                ret |-> Collection_hist(col.vec, num_bins), src |-> col.vec]
    /\ UNCHANGED <<col, ftree, fres, fprev, fhist, tree, tres, tprev, uni>>

\* Collection::<T>::from_json on the text of c with one more piece, bad,
\* which is not the text of a record; elem is T::from_json(bad)
collection_bad_json(bad) ==
    /\ cres.op \in {"empty", "push"}
    /\ cres' = [op |-> "collection_bad_json", bad |-> bad,
                elem |-> T_from_json(col.T, bad),
                ret |-> Collection_from_json(col.T,
                            "[" \o Join([i \in 1..(Len(col.vec) + 1) |->
                                            IF i <= Len(col.vec)
                                            THEN T_to_json(col.T, col.vec[i]) ELSE bad],
                                        ",") \o "]")]
    /\ UNCHANGED <<col, ftree, fres, fprev, fhist, tree, tres, tprev, uni>>

\* Collection::<T>::from_msg on c.to_msg() without its last `drop` bytes
collection_bad_msg(drop) ==
    /\ cres.op \in {"empty", "push"}
    /\ cres' = [op |-> "collection_bad_msg", drop |-> drop,
                ret |-> Let(Collection_to_msg(col.T, col.vec), LAMBDA bytes :
                            Collection_from_msg(col.T, SubSeq(bytes, 1, Len(bytes) - drop)))]
    /\ UNCHANGED <<col, ftree, fres, fprev, fhist, tree, tres, tprev, uni>>

\* from_msg on encodings whose length header is rewritten to n: that of
\* Branch::new(tag, c) with its map header (branch), that of the record x
\* with its first array header (outer) and, for Bin and PointBin, with the
\* array header of the edges (inner), which stands before the last 2 or 4
\* floats of 9 bytes each
bad_header(x, n) ==
    Let(Branch_to_msg(Branch_new(col.T, col.T, col.vec)), LAMBDA bb :
    Let(T_to_msg(col.T, x), LAMBDA xb :
    Let(IF col.T = "Bin" THEN Len(xb) - 18
        ELSE IF col.T = "PointBin" THEN Len(xb) - 36 ELSE 1, LAMBDA at :
        /\ cres.op \in {"empty", "push"}
        /\ cres' = [op |-> "bad_header", n |-> n,
                    branch |-> Branch_from_msg(write_map_len(n) \o Tail(bb)),
                    outer |-> T_from_msg(col.T, write_array_len(n) \o Tail(xb)),
                    inner |-> T_from_msg(col.T, [xb EXCEPT ![at] = 144 + n])]
        /\ UNCHANGED <<col, ftree, fres, fprev, fhist, tree, tres, tprev, uni>>)))

NextCodec ==
    \/ \E x \in Values(col.T) : push(x)
    \/ \E x \in Values(col.T) : record_json(x)
    \/ \E x \in Values(col.T) : record_msg(x)
    \/ collection_json
    \/ \E tail \in Tails : collection_msg(tail)
    \/ branch_msg
    \/ \E tag \in {"Object", "u8", "Pt"} : branch_tag(tag)
    \/ extract
    \/ \E T \in Decodable, tag \in Decodable \cup {"Object"} : extract_as(T, tag)
    \/ \E close \in SUBSET Values(col.T) : cut(close)
    \/ \E num_bins \in 2..4 : hist(num_bins)
    \/ \E close \in [Values(col.T) -> {F(0), F(5)}] : map(close)
    \/ \E bad \in {"x", "{\"x\"}", "{\"m0\"}", "{\"n0\"}", "{\"x\":1}", "{\"count\":1}"} :
            collection_bad_json(bad)
    \/ \E drop \in {1, 9} : collection_bad_msg(drop)
    \/ \E x \in Values(col.T), n \in 1..4 : bad_header(x, n)

SpecCodec == InitCodec /\ [][NextCodec]_vars

-----------------------------------------------------------------------------
(* Universe::run(t, p) of the example universe_in_a_box: the main thread, a
   pool of p workers that take jobs from one queue, the particles behind
   Arc<Mutex<..>> (cur, with `arc` the number of Arc clones alive and `mutex`
   the worker that holds the lock, 0 for none) and the channel (chan, the
   messages sent and not yet received).  A ThreeVec and an f64 are a number
   modulo Ring, and dt, the masses and the constants are 1: of what a job
   computes, the model keeps which data it reads and which it writes.  A job
   is [phase, i, prev]: the closure of the first loop (1, position) or of the
   second (2, velocity) for particle i, with the snapshot the first captures.
   The closure owns an Arc clone; its body takes the lock, updates, sends,
   and ends: the guard, a local of the body, is dropped first, and the
   captured Arc clone after it, when the closure itself is dropped. *)

Ring == 3

\* run is followed for at most this many time steps
MaxSteps == 1

\* and for pools of at most this many workers
MaxPool == 2

Particle_new(pid, position, velocity) ==
    [pid |-> pid, position |-> position, velocity |-> velocity, t_force |-> 0]

Clouds ==
    {<<Particle_new(0, 1, 1)>>,
     <<Particle_new(0, 0, 1), Particle_new(1, 2, 0)>>,
     <<Particle_new(0, 1, 2), Particle_new(1, 1, 1)>>}

\* `for j in 0..part_len { if part.pid() != parts[j].pid() { part.force(&parts[j]) } }`
\* from j on; force adds to t_force what the two positions give
RECURSIVE Particle_forces(_, _, _)
Particle_forces(part, parts, j) ==
    IF j > Len(parts) THEN part
    ELSE Particle_forces(
            IF part.pid # parts[j].pid
            THEN [part EXCEPT !.t_force = (@ + parts[j].position + Ring - part.position) % Ring]
            ELSE part,
            parts, j + 1)

\* the body of a job of the first loop: zero_force, the forces of the
\* snapshot, translate
position_job(cur_state, prev_state, i) ==
    Let(Particle_forces([cur_state[i] EXCEPT !.t_force = 0], prev_state, 1), LAMBDA part :
        [cur_state EXCEPT ![i] =
            [part EXCEPT !.position = (@ + part.velocity + part.t_force) % Ring]])

\* the body of a job of the second loop: pre_force, zero_force, the forces
\* of the particles as they are now, accelerate
velocity_job(cur_state, i) ==
    Let(cur_state[i].t_force, LAMBDA pre_force :
    Let(Particle_forces([cur_state[i] EXCEPT !.t_force = 0], cur_state, 1), LAMBDA part :
        [cur_state EXCEPT ![i] =
            [part EXCEPT !.velocity = (@ + part.t_force + pre_force) % Ring]]))

\* Universe::new(state, dt), then the first three lines of run(t, p)
InitRun ==
    /\ \E state \in Clouds, t \in 1..MaxSteps, p \in 1..MaxPool :
            uni = [pc |-> "loop", t |-> t, left |-> t, phase |-> 1, i |-> 1,
                   n_jobs |-> 0, got |-> 0,
                   state |-> state, previous_state |-> state, init |-> state,
                   cur |-> state, arc |-> 1, mutex |-> 0, chan |-> 0,
                   prev_state |-> state, queue |-> <<>>,
                   worker |-> [w \in 1..p |-> [pc |-> "idle"]]]
    /\ FeedIdle
    /\ TreeIdle
    /\ CodecIdle

\* the head of the loop body: prev_state = Arc::new(self.previous_state.clone())
step_begin ==
    /\ uni.pc = "loop"
    /\ uni.left > 0
    /\ uni' = [uni EXCEPT !.pc = "execute", !.phase = 1, !.i = 1, !.n_jobs = 0, !.got = 0,
                          !.prev_state = uni.previous_state]
    /\ UNCHANGED <<ftree, fres, fprev, fhist, tree, tres, tprev, col, cres>>

\* one pass of a `for i` loop: the Arc is cloned into the closure and
\* pool.execute puts the closure into the queue
execute ==
    /\ uni.pc = "execute"
    /\ uni' = [uni EXCEPT !.arc = @ + 1,
                          !.queue = Append(@, [phase |-> uni.phase, i |-> uni.i,
                                               prev |-> uni.prev_state]),
                          !.n_jobs = @ + 1,
                          !.i = @ + 1,
                          !.pc = IF uni.i = Len(uni.state) THEN "recv" ELSE "execute"]
    /\ UNCHANGED <<ftree, fres, fprev, fhist, tree, tres, tprev, col, cres>>

\* rx.iter().take(n_jobs): one message is received; after the last the main
\* thread goes on to the second loop or to the end of the step
recv ==
    /\ uni.pc = "recv"
    /\ uni.chan > 0
    /\ uni' = IF uni.got + 1 < uni.n_jobs
              THEN [uni EXCEPT !.chan = @ - 1, !.got = @ + 1]
              ELSE IF uni.phase = 1
              THEN [uni EXCEPT !.chan = @ - 1, !.pc = "execute", !.phase = 2, !.i = 1,
                               !.n_jobs = 0, !.got = 0]
              ELSE [uni EXCEPT !.chan = @ - 1, !.got = @ + 1, !.pc = "end"]
    /\ UNCHANGED <<ftree, fres, fprev, fhist, tree, tres, tprev, col, cres>>

\* temp_state = cur_state.clone(); previous_state = temp_state.lock().unwrap().clone():
\* the lock is waited for; temp_state is dropped at the end of the pass
step_end ==
    /\ uni.pc = "end"
    /\ uni.mutex = 0
    /\ uni' = [uni EXCEPT !.previous_state = uni.cur, !.left = @ - 1, !.pc = "loop"]
    /\ UNCHANGED <<ftree, fres, fprev, fhist, tree, tres, tprev, col, cres>>

\* self.state = Arc::try_unwrap(cur_state).unwrap()...: try_unwrap gives Err
\* when another clone is alive, and unwrap panics on it
try_unwrap ==
    /\ uni.pc = "loop"
    /\ uni.left = 0
    /\ uni' = IF uni.arc = 1 THEN [uni EXCEPT !.state = uni.cur, !.pc = "done"]
              ELSE [uni EXCEPT !.pc = "panicked"]
    /\ UNCHANGED <<ftree, fres, fprev, fhist, tree, tres, tprev, col, cres>>

\* a worker without a job takes the next of the queue
worker_take(w) ==
    /\ uni.worker[w].pc = "idle"
    /\ uni.queue # <<>>
    /\ uni' = [uni EXCEPT !.worker[w] = [pc |-> "taken", job |-> Head(uni.queue)],
                          !.queue = Tail(@)]
    /\ UNCHANGED <<ftree, fres, fprev, fhist, tree, tres, tprev, col, cres>>

\* cur_state.lock().unwrap() and the body up to the send
job_lock(w) ==
    /\ uni.worker[w].pc = "taken"
    /\ uni.mutex = 0
    /\ uni' = Let(uni.worker[w].job, LAMBDA job :
                [uni EXCEPT !.mutex = w,
                            !.cur = IF job.phase = 1 THEN position_job(@, job.prev, job.i)
                                    ELSE velocity_job(@, job.i),
                            !.worker[w].pc = "locked"])
    /\ UNCHANGED <<ftree, fres, fprev, fhist, tree, tres, tprev, col, cres>>

\* tx.send(1), the last statement of the body
job_send(w) ==
    /\ uni.worker[w].pc = "locked"
    /\ uni' = [uni EXCEPT !.chan = @ + 1, !.worker[w].pc = "sent"]
    /\ UNCHANGED <<ftree, fres, fprev, fhist, tree, tres, tprev, col, cres>>

\* the body ends: the guard is dropped
job_unlock(w) ==
    /\ uni.worker[w].pc = "sent"
    /\ uni' = [uni EXCEPT !.mutex = 0, !.worker[w].pc = "unlocked"]
    /\ UNCHANGED <<ftree, fres, fprev, fhist, tree, tres, tprev, col, cres>>

\* the closure is dropped, and its Arc clone with it
job_drop(w) ==
    /\ uni.worker[w].pc = "unlocked"
    /\ uni' = [uni EXCEPT !.arc = @ - 1, !.worker[w] = [pc |-> "idle"]]
    /\ UNCHANGED <<ftree, fres, fprev, fhist, tree, tres, tprev, col, cres>>

NextRun ==
    \/ step_begin
    \/ execute
    \/ recv
    \/ step_end
    \/ try_unwrap
    \/ \E w \in DOMAIN uni.worker : worker_take(w)
    \/ \E w \in DOMAIN uni.worker : job_lock(w)
    \/ \E w \in DOMAIN uni.worker : job_send(w)
    \/ \E w \in DOMAIN uni.worker : job_unlock(w)
    \/ \E w \in DOMAIN uni.worker : job_drop(w)

SpecRun == InitRun /\ [][NextRun]_vars

-----------------------------------------------------------------------------
(* The claims. *)

\* C1: decoding the binary encoding of a FeedTree gives Ok, a tree equal to
\* the encoded one (same metadata, same feeds, same elements in the same
\* order) and no bytes left over, whatever the metadata keys are.
C1_MsgRoundTrip ==
    fres.op = "from_msg" =>
        /\ fres.ret.ok
        /\ FeedTree_eq("f64", fres.ret.val, ftree)
        /\ fres.ret.rest = <<>>

\* C2: decoding the binary encoding of Branch::new(tag, c) gives Ok, and
\* extract on the decoded Branch gives a collection equal to c, for every
\* decodable tag.
C2_BranchRoundTrip ==
    cres.op = "branch_msg" =>
        /\ cres.ret.ok
        /\ cres.ext.ok
        /\ Collection_eq(col.T, cres.ext.val, col.vec)

\* C3: every feed holds the collection passed to its add_feed followed by
\* the records of the accepted writes for its key, in call order; an
\* accepted write makes that one feed longer by one and changes no other
\* feed and no metadata field.
C3_FeedContents ==
    /\ DOMAIN ftree.datafeeds = DOMAIN fhist
    /\ \A k \in DOMAIN ftree.datafeeds : ftree.datafeeds[k] = fhist[k]
    /\ (fres.op = "write" /\ fres.ret = "Ok") =>
            /\ Len(ftree.datafeeds[fres.key]) = Len(fprev.datafeeds[fres.key]) + 1
            /\ \A k \in DOMAIN fprev.datafeeds \ {fres.key} :
                    ftree.datafeeds[k] = fprev.datafeeds[k]
            /\ ftree.metadata = fprev.metadata

\* C4: add_field returns KeyError exactly when its key was a metadata key
\* before the call (the keys of FeedTree::new among them) and Ok otherwise;
\* add_feed returns KeyError exactly when its key named a feed before the
\* call and Ok otherwise.
C4_KeyErrorIffUsed ==
    /\ fres.op = "add_field" =>
            fres.ret = (IF fres.key \in DOMAIN fprev.metadata THEN "KeyError" ELSE "Ok")
    /\ fres.op = "add_feed" =>
            fres.ret = (IF fres.key \in DOMAIN fprev.datafeeds THEN "KeyError" ELSE "Ok")

\* add_field("SubType", ..) has been refused
C4_Witness ==
    fres.op = "add_field" /\ fres.key = "SubType" /\ fres.ret = "KeyError"

\* C5: when add_field or add_feed returns KeyError the FeedTree is as it
\* was before the call.
C5_KeyErrorLeavesTree ==
    (fres.op \in {"add_field", "add_feed"} /\ fres.ret = "KeyError") => ftree = fprev

\* C6: Tree.add_field with a key already in the metadata and Tree.add_branch
\* with a key already in the branches are refused with KeyError and leave
\* the entry stored first in place.
C6_TreeInsertOnce ==
    /\ (tres.op = "add_field" /\ tres.key \in DOMAIN tprev.metadata) =>
            /\ tres.ret = "KeyError"
            /\ tree.metadata[tres.key] = tprev.metadata[tres.key]
    /\ (tres.op = "add_branch" /\ tres.key \in DOMAIN tprev.branches) =>
            /\ tres.ret = "KeyError"
            /\ tree.branches[tres.key] = tprev.branches[tres.key]

\* C7: write with a key that names no feed returns KeyError, makes no feed
\* under that key and leaves the feeds and the metadata as they were.
C7_WriteAbsentKey ==
    (fres.op = "write" /\ fres.key \notin DOMAIN fprev.datafeeds) =>
        /\ fres.ret = "KeyError"
        /\ fres.key \notin DOMAIN ftree.datafeeds
        /\ ftree = fprev

\* a write to a key that names no feed, in a tree that has another feed
C7_Witness ==
    /\ fres.op = "write"
    /\ fres.key \notin DOMAIN fprev.datafeeds
    /\ DOMAIN fprev.datafeeds # {}

\* C8: for every record x, decoding the text of x gives Ok(x), and decoding
\* the bytes of x gives Ok((x, rest)) with rest empty.
C8_RecordRoundTrip ==
    /\ cres.op = "record_json" =>
            cres.ret.ok /\ T_eq(col.T, cres.ret.val, cres.x)
    /\ cres.op = "record_msg" =>
            cres.ret.ok /\ T_eq(col.T, cres.ret.val, cres.x) /\ cres.ret.rest = <<>>

\* C9: decoding the bytes of a collection followed by a tail gives Ok, a
\* collection equal to the encoded one element for element, and exactly
\* the tail as the bytes left over.
C9_CursorThreaded ==
    cres.op = "collection_msg" =>
        /\ cres.ret.ok
        /\ Collection_eq(col.T, cres.ret.val, col.vec)
        /\ cres.ret.rest = cres.tail

\* a collection of more than one FourMat has been decoded before a tail
C9_Witness ==
    /\ cres.op = "collection_msg"
    /\ col.T = "FourMat"
    /\ Len(col.vec) > 1
    /\ cres.tail # <<>>

\* C10: decoding the text of a collection gives Ok and a collection equal to
\* the encoded one, elements in the same order, for length 0, 1 and more.
C10_TextRoundTrip ==
    cres.op = "collection_json" =>
        cres.ret.ok /\ Collection_eq(col.T, cres.ret.val, col.vec)

\* C11: decoding an encoded Branch tagged "Object" fails with
\* ObjectBranchDeserializeError, and decoding one whose tag is outside the
\* known tags fails with ParseError, from bytes and from text alike; no
\* Branch is returned.
C11_TagDispatchErrors ==
    cres.op = "branch_tag" =>
        /\ ~cres.msg.ok
        /\ cres.msg.err = (IF cres.tag = "Object" THEN "ObjectBranchDeserializeError"
                           ELSE "ParseError")
        /\ ~cres.json.ok
        /\ cres.json.err = (IF cres.tag = "Object" THEN "ObjectBranchDeserializeError"
                            ELSE "ParseError")

\* C12: add_branch with a fresh key and a tag of the closed set {f64,
\* String, ThreeVec, ThreeMat, FourVec, FourMat, Bin, Point, PointBin,
\* Object} does not abort and stores the branch, tagged so, under the key.
C12_ClosedTagsAccepted ==
    (/\ tres.op \in {"add_branch", "panic"}
     /\ tres.tag \in {"f64", "String", "ThreeVec", "ThreeMat", "FourVec", "FourMat",
                      "Bin", "Point", "PointBin", "Object"}
     /\ tres.key \notin DOMAIN tprev.branches) =>
        /\ tres.op = "add_branch"
        /\ tres.key \in DOMAIN tree.branches
        /\ tree.branches[tres.key].subtype = tres.tag

\* C13: add_branch with a tag outside the closed set aborts and inserts
\* nothing, and every branch stored in the Tree has a tag of the closed set.
C13_UnknownTagAborts ==
    /\ (/\ tres.op \in {"add_branch", "panic"}
        /\ tres.tag \notin {"f64", "String", "ThreeVec", "ThreeMat", "FourVec",
                            "FourMat", "Bin", "Point", "PointBin", "Object"}) =>
            /\ tres.op = "panic"
            /\ tree = tprev
    /\ \A k \in DOMAIN tree.branches :
            tree.branches[k].subtype \in
                {"f64", "String", "ThreeVec", "ThreeMat", "FourVec", "FourMat",
                 "Bin", "Point", "PointBin", "Object"}

\* add_branch with the tag "u8" has aborted on a Tree that holds a branch
C13_Witness ==
    /\ tres.op = "panic"
    /\ tres.tag = "u8"
    /\ DOMAIN tree.branches # {}

\* C14: decoding a FeedTree from bytes in which an entry, a map header or a
\* feed cannot be decoded (here: an encoding cut short) returns an error,
\* never Ok of the entries that did decode.
C14_NoPartialDecode ==
    fres.op = "from_msg_truncated" => ~fres.ret.ok

\* C15: from_json and from_msg return Ok or Err on every input and never
\* abort.
C15_DecodeNeverAborts ==
    /\ cres.op = "collection_bad_json" => cres.elem # Panic /\ cres.ret # Panic
    /\ cres.op = "collection_bad_msg" => cres.ret # Panic

\* C20: when an element of a Collection fails to decode, from bytes or from
\* text, the result is Err(ParseError) and no collection is returned.
C20_FailsOnFirstBadElement ==
    /\ (cres.op = "collection_bad_json" /\ ~cres.elem.ok) => cres.ret = Err("ParseError")
    /\ cres.op = "collection_bad_msg" => cres.ret = Err("ParseError")

\* C16: extract::<T>() with T the element type of the collection given to
\* Branch::new returns a collection equal to it; the buffer is made by the
\* first call, and a later call returns the same and changes neither the
\* buffer nor the tag nor the stored collection.
C16_ExtractCached ==
    cres.op = "extract" =>
        /\ cres.out.ok
        /\ Collection_eq(col.T, cres.out.val, col.vec)
        /\ cres.branch.buffer = <<"Some", Collection_to_msg(col.T, col.vec)>>
        /\ cres.branch.subtype = cres.before.subtype
        /\ cres.branch.branch = cres.before.branch
        /\ cres.calls = 1 => cres.before.buffer = <<"None">>
        /\ cres.calls > 1 => cres.branch = cres.before /\ cres.out = cres.first

\* a Branch of two records has been extracted a second time
C16_Witness ==
    /\ cres.op = "extract"
    /\ cres.calls = 2
    /\ Len(col.vec) = 2

\* C17: cut returns a new collection of exactly the elements of the source
\* that pass the test, in their order in the source, and leaves the source
\* as it was.
C17_CutKeepsPassing ==
    cres.op = "cut" =>
        /\ Len(cres.ret) = Cardinality({i \in 1..Len(col.vec) : col.vec[i] \in cres.close})
        /\ \A i \in 1..Len(col.vec) :
                col.vec[i] \in cres.close =>
                    cres.ret[Cardinality({j \in 1..i : col.vec[j] \in cres.close})]
                        = col.vec[i]
        /\ cres.src = col.vec

\* a cut of two records has dropped the first and kept the second
C17_Witness ==
    /\ cres.op = "cut"
    /\ Len(col.vec) = 2
    /\ col.vec[1] \notin cres.close
    /\ cres.ret = <<col.vec[2]>>

\* bytes is a map header of one more than the metadata, every metadata pair
\* (in the order mo), the string key, a map header of n, then entries
C18_ContainerLayout(bytes, metadata, mo, key, n, entries) ==
    Let(read_map_len(bytes), LAMBDA h :
        /\ h.ok
        /\ h.val = Cardinality(DOMAIN metadata) + 1
        /\ \A k \in DOMAIN metadata : \E i \in 1..Len(mo) : mo[i] = k
        /\ h.rest = ConcatAll([i \in 1..Len(mo) |->
                                write_str(mo[i]) \o write_str(metadata[mo[i]])])
                        \o write_str(key) \o write_map_len(n) \o entries)

\* the layout of the last FeedTree encoded, its feeds under the key `key`
C18_FeedTreeLayout(key) ==
    C18_ContainerLayout(fres.bytes, ftree.metadata, fres.mo, key,
                    Cardinality(DOMAIN ftree.datafeeds),
                    ConcatAll([i \in 1..Len(fres.fo) |->
                        write_str(fres.fo[i])
                            \o Collection_to_msg("f64", ftree.datafeeds[fres.fo[i]])]))

\* the layout of the last Tree encoded
C18_TreeLayout ==
    C18_ContainerLayout(tres.bytes, tres.tree.metadata, tres.mo, "branches",
                    Cardinality(DOMAIN tres.tree.branches),
                    ConcatAll([i \in 1..Len(tres.bo) |->
                        write_str(tres.bo[i])
                            \o TreeBranch_to_msg(tres.tree.branches[tres.bo[i]])]))

\* C18 as stated: to_msg of a Tree / FeedTree writes a map header of
\* metadata.len()+1, every metadata pair, then the key "branches" (Tree) or
\* "feeds" (FeedTree), a map header of the number of branches / feeds and,
\* for each, its name and its encoded Branch / Collection.
C18_LayoutFeedsKey ==
    /\ fres.op = "from_msg" => C18_FeedTreeLayout("feeds")
    /\ tres.op = "to_msg" => C18_TreeLayout

\* C18 amended: the same layout, the key of a FeedTree being "datafeeds".
C18_LayoutDatafeedsKey ==
    /\ fres.op = "from_msg" => C18_FeedTreeLayout("datafeeds")
    /\ tres.op = "to_msg" => C18_TreeLayout

C18_Witness ==
    /\ fres.op = "from_msg"
    /\ Cardinality(DOMAIN ftree.metadata) = 4
    /\ Cardinality(DOMAIN ftree.datafeeds) = 2
    /\ \E k \in DOMAIN ftree.datafeeds : Len(ftree.datafeeds[k]) = 2

C21_WrongFieldCountRejected ==
    (/\ cres.op = "collection_bad_json"
     /\ \/ col.T = "Point" /\ cres.bad = "{\"x\":1}"
        \/ col.T \in {"Bin", "PointBin"} /\ cres.bad = "{\"count\":1}")
        => cres.elem = Err("ParseError")

\* C22: Branch::from_msg on bytes whose leading map header is not 2 returns
\* ParseError, and from_msg of Point, Bin, PointBin, FourVec and FourMat on
\* bytes whose array header differs from the arity of the record (2; 2 then
\* 2; 2 then 4; 4; 4) returns ParseError.
C22_HeaderMismatchRejected ==
    cres.op = "bad_header" =>
        /\ cres.n # 2 => cres.branch = Err("ParseError")
        /\ (col.T \in {"Point", "Bin", "PointBin"} /\ cres.n # 2)
                => cres.outer = Err("ParseError")
        /\ (col.T \in {"FourVec", "FourMat"} /\ cres.n # 4)
                => cres.outer = Err("ParseError")
        /\ (col.T = "Bin" /\ cres.n # 2) => cres.inner = Err("ParseError")
        /\ (col.T = "PointBin" /\ cres.n # 4) => cres.inner = Err("ParseError")

\* C23: for every FeedTree t with one or more feeds, whatever its metadata
\* and feed names, FeedTree::from_json(t.to_json()) returns Ok with a
\* FeedTree equal to t.
C23_JsonRoundTrip ==
    (fres.op = "from_json" /\ DOMAIN ftree.datafeeds # {}) =>
        /\ fres.ret.ok
        /\ FeedTree_eq("f64", fres.ret.val, ftree)

\* C24: for distinct decodable types T and U, a non-empty Collection<U> c and
\* any tag, Branch::new(tag, c).extract::<T>() returns ParseError; the tag
\* is not looked at: the result is that of the Branch tagged with U.
C24_MismatchedExtractFails ==
    cres.op = "extract_as" =>
        /\ (cres.T # col.T /\ Len(col.vec) >= 1) => cres.out = Err("ParseError")
        /\ cres.out = Branch_extract(Branch_new(col.T, col.T, col.vec), cres.T).out

\* a collection of two Bin tagged "PointBin" and extracted as PointBin
C24_Witness ==
    /\ cres.op = "extract_as"
    /\ col.T = "Bin"
    /\ cres.T = "PointBin"
    /\ cres.tag = "PointBin"
    /\ Len(col.vec) = 2

\* C25: two encodings of one FeedTree that differ only in the order of the
\* metadata entries and of the feed entries decode to equal FeedTrees: the
\* tree decoded from the encoding in the orders of the last round trip
\* equals the one decoded from the encoding in one fixed pair of orders.
C25_OrderIndependent ==
    fres.op = "from_msg" =>
        Let(CHOOSE o \in IterOrders(ftree.metadata) : TRUE, LAMBDA mo :
        Let(CHOOSE o \in IterOrders(ftree.datafeeds) : TRUE, LAMBDA fo :
        Let(FeedTree_from_msg("f64", FeedTree_to_msg("f64", ftree, mo, fo)), LAMBDA other :
            /\ fres.ret.ok
            /\ other.ok
            /\ FeedTree_eq("f64", fres.ret.val, other.val))))

\* the braces of text are balanced: no prefix closes more than it opens, and
\* the whole text closes as many as it opens
C26_Balanced(text) ==
    Let([i \in 0..Len(text) |->
            Cardinality({j \in 1..i : SubSeq(text, j, j) = "{"})
                - Cardinality({j \in 1..i : SubSeq(text, j, j) = "}"})], LAMBDA depth :
        /\ \A i \in 0..Len(text) : depth[i] >= 0
        /\ depth[Len(text)] = 0)

\* text ends with the key and an empty map, then the closing brace
C26_EmptyMap(text, key) ==
    Let("\"" \o key \o "\":{}}", LAMBDA end :
        /\ Len(text) >= Len(end)
        /\ SubSeq(text, Len(text) - Len(end) + 1, Len(text)) = end)

\* C26: to_json of a Tree with no branches and of a FeedTree with no feeds
\* yields text with balanced braces whose branch / feed map is the empty map
\* {}: taking the trailing separator away never takes a brace away.
C26_EmptyContainerText ==
    /\ (fres.op = "from_json" /\ DOMAIN ftree.datafeeds = {}) =>
            C26_Balanced(fres.text) /\ C26_EmptyMap(fres.text, "datafeeds")
    /\ (tres.op = "to_json" /\ DOMAIN tres.tree.branches = {}) =>
            C26_Balanced(tres.text) /\ C26_EmptyMap(tres.text, "branches")

\* C27: in Universe::run(t, p) with t >= 1, when the main thread reaches
\* Arc::try_unwrap(cur_state) after the last step no pool job holds a clone
\* of the Arc, under any interleaving, and the unwrap does not fail.
C27_UnwrapCannotFail ==
    /\ uni.pc # "panicked"
    /\ (uni.pc = "loop" /\ uni.left = 0) => uni.arc = 1

\* the jobs of the first loop run one after the other, from particle i on
RECURSIVE C28_Positions(_, _, _)
C28_Positions(cur_state, prev_state, i) ==
    IF i > Len(cur_state) THEN cur_state
    ELSE C28_Positions(position_job(cur_state, prev_state, i), prev_state, i + 1)

\* the jobs of the second loop run one after the other, from particle i on
RECURSIVE C28_Velocities(_, _)
C28_Velocities(cur_state, i) ==
    IF i > Len(cur_state) THEN cur_state
    ELSE C28_Velocities(velocity_job(cur_state, i), i + 1)

\* t time steps run that way
RECURSIVE C28_Steps(_, _, _)
C28_Steps(cur_state, previous_state, t) ==
    IF t = 0 THEN cur_state
    ELSE Let(C28_Velocities(C28_Positions(cur_state, previous_state, 1), 1), LAMBDA next :
             C28_Steps(next, next, t - 1))

\* C28: Universe::run(t, p) is schedule-independent: for a fixed initial
\* state the final state is the same for every pool size and every
\* interleaving of the jobs, namely the state that the jobs give when they
\* run one after the other; the jobs of one loop have all sent their
\* message before a job of the next loop is in the queue.
C28_ScheduleIndependent ==
    /\ uni.pc \in {"done", "panicked"} => uni.state = C28_Steps(uni.init, uni.init, uni.t)
    /\ uni.pc # "off" =>
            /\ \A k \in 1..Len(uni.queue) : uni.queue[k].phase = uni.phase
            /\ \A w \in DOMAIN uni.worker :
                    uni.worker[w].pc \in {"taken", "locked"}
                        => uni.worker[w].job.phase = uni.phase

\* C29: hist(n) with n >= 2 on a non-empty Collection<f64> returns n bins,
\* and the count of each bin is the number of elements x with in_edge <= x <
\* ex_edge of that bin, so that the counts add up to the length, also when
\* bins between two consecutive sorted elements are empty.
C29_HistCounts ==
    (cres.op = "hist" /\ Len(col.vec) >= 1) =>
        /\ cres.ret.ok
        /\ Len(cres.ret.val) = cres.num_bins
        /\ \A b \in 1..Len(cres.ret.val) :
                cres.ret.val[b].count =
                    Cardinality({i \in 1..Len(col.vec) :
                        /\ cres.ret.val[b].in_edge
                                <= F64Whole(col.vec[i]) * 100 * cres.num_bins
                        /\ F64Whole(col.vec[i]) * 100 * cres.num_bins
                                < cres.ret.val[b].ex_edge})

\* C30: map(f) returns a new collection of the length of the source whose
\* i-th element is f of the i-th element of the source, for every i, and
\* leaves the source as it was.
C30_MapElementwise ==
    cres.op = "map" =>
        /\ Len(cres.ret) = Len(col.vec)
        /\ \A i \in 1..Len(col.vec) : cres.ret[i] = cres.close[col.vec[i]]
        /\ col.vec = cres.src

\* two different records that the closure tells apart
C30_Witness ==
    /\ cres.op = "map"
    /\ Len(col.vec) = 2
    /\ col.vec[1] # col.vec[2]
    /\ cres.close[col.vec[1]] # cres.close[col.vec[2]]

=============================================================================
